---------------------------- MODULE Spec2Model ----------------------------
(***************************************************************************)
(* Model of bochi's selector language (src/src/selector.rs): the           *)
(* recursive-descent parser Selector::parse with its legacy fallback, and  *)
(* the matcher Selector::matches over a roxmltree document.                *)
(*                                                                         *)
(* A string is a sequence of characters (one-character TLA+ strings).      *)
(* Rust strings are UTF-8: a character occupies utf8_len(c) bytes, a       *)
(* string's len() and every slice index count bytes, while                 *)
(* chars().nth(i) counts characters.  The parser's cursor `pos` is used    *)
(* both ways, so the model keeps both views.                               *)
(***************************************************************************)
EXTENDS Naturals, Integers, Sequences, FiniteSets, TLC

VARIABLES
    parts,      \* the pieces the caller concatenated into input
    input,      \* the selector string handed to Selector::parse
    result,     \* what Selector::parse returned for input; in main, `result`
    pc,         \* position of the calling program
    doc,        \* the XML document: a sequence of nodes in document order
    sel,        \* the Selector AST handed to Selector::matches
    node,       \* the node handed to Selector::matches (0: none yet)
    matched,    \* what Selector::matches returned
    elements,   \* what find_elements or wait_for_elements returned
    cli,        \* the command line of main
    main_selector,  \* main's `selector`: Selector::parse(&cli.selector)
    target_selector,  \* main's `target_selector`, parsed likewise
    fetched,    \* `xml`: the hierarchy get_ui_hierarchy returned last
    screen,     \* what get_screen_dimensions returned
    elapsed,    \* start.elapsed(), in units of the timeout
    trace,      \* the clock reads, sleeps and adb commands of main so far
    exit_code   \* the exit code of the process (-1: still running)

\* the variables of main and of the functions it calls
vars_main ==
    <<cli, main_selector, target_selector, fetched, screen, elapsed, trace,
      exit_code>>

vars ==
    <<parts, input, result, pc, doc, sel, node, matched, elements, vars_main>>

(***************************************************************************)
(* Characters and strings                                                  *)
(***************************************************************************)

\* Option::None of peek()
None == "None"

\* char::is_whitespace, on the characters the model draws from
is_whitespace(c) == c \in {" ", "\t"}

Letters == {"a", "b", "c", "d", "e", "f", "g", "h", "i", "j", "k", "l", "m",
            "n", "o", "p", "q", "r", "s", "t", "u", "v", "w", "x", "y", "z",
            "A", "B", "C", "D", "I", "T", "X", "é"}

Digits == {"0", "1", "2", "3", "4", "5", "6", "7", "8", "9"}

\* char::is_alphanumeric
is_alphanumeric(c) == c \in Letters \cup Digits

\* char::len_utf8: every character of the model is ASCII except 'é'
utf8_len(c) == IF c = "é" THEN 2 ELSE 1

\* the byte offset at which character number k+1 of s starts
RECURSIVE byte_offset(_, _)
byte_offset(s, k) ==
    IF k = 0 THEN 0 ELSE byte_offset(s, k - 1) + utf8_len(s[k])

\* str::len: the length in bytes
len(s) == byte_offset(s, Len(s))

\* str::is_char_boundary
is_char_boundary(s, b) == \E k \in 0..Len(s) : byte_offset(s, k) = b

\* the number of whole characters of s before byte offset b (a boundary)
char_index(s, b) == CHOOSE k \in 0..Len(s) : byte_offset(s, k) = b

\* &s[a..b] panics unless a <= b <= len and both are character boundaries
slice_ok(s, a, b) ==
    /\ a <= b
    /\ b <= len(s)
    /\ is_char_boundary(s, a)
    /\ is_char_boundary(s, b)

\* &s[a..b], where slice_ok
slice(s, a, b) == SubSeq(s, char_index(s, a) + 1, char_index(s, b))

\* str::starts_with
starts_with(s, t) == Len(s) >= Len(t) /\ SubSeq(s, 1, Len(t)) = t

\* str::ends_with
ends_with(s, t) ==
    Len(s) >= Len(t) /\ SubSeq(s, Len(s) - Len(t) + 1, Len(s)) = t

\* str::contains(char)
contains(s, c) == \E i \in 1..Len(s) : s[i] = c

\* str::contains(&str): t occurs in s as a substring
contains_str(s, t) ==
    \E i \in 0..(Len(s) - Len(t)) : SubSeq(s, i + 1, i + Len(t)) = t

\* the number of whitespace characters s starts with, from character i on
RECURSIVE leading_whitespace(_, _)
leading_whitespace(s, i) ==
    IF i <= Len(s) /\ is_whitespace(s[i])
    THEN 1 + leading_whitespace(s, i + 1)
    ELSE 0

\* the number of whitespace characters s ends with, up to character i
RECURSIVE trailing_whitespace(_, _)
trailing_whitespace(s, i) ==
    IF i >= 1 /\ is_whitespace(s[i])
    THEN 1 + trailing_whitespace(s, i - 1)
    ELSE 0

\* str::trim_start
trim_start(s) == SubSeq(s, leading_whitespace(s, 1) + 1, Len(s))

\* str::trim_end
trim_end(s) == SubSeq(s, 1, Len(s) - trailing_whitespace(s, Len(s)))

\* str::trim
trim(s) == trim_end(trim_start(s))

\* the index of the first c in s, 0 when there is none
RECURSIVE find(_, _, _)
find(s, c, i) ==
    IF i > Len(s) THEN 0 ELSE IF s[i] = c THEN i ELSE find(s, c, i + 1)

(***************************************************************************)
(* The AST: enum Selector, struct AttrClause, enum AttrOp                  *)
(***************************************************************************)

AttrOp == {"Equals", "StartsWith", "EndsWith", "Contains"}

AttrClause(attr, op, value) == [attr |-> attr, op |-> op, value |-> value]

And(clauses) == [type |-> "And", clauses |-> clauses]

Or(selectors) == [type |-> "Or", selectors |-> selectors]

Has(inner) == [type |-> "Has", inner |-> inner]

Not(inner) == [type |-> "Not", inner |-> inner]

\* has and not are Options: <<>> is None, <<s>> is Some(s)
Complex(attrs, has, not) ==
    [type |-> "Complex", attrs |-> attrs, has |-> has, not |-> not]

Child(parent, child) == [type |-> "Child", parent |-> parent, child |-> child]

Descendant(ancestor, descendant) ==
    [type |-> "Descendant", ancestor |-> ancestor, descendant |-> descendant]

(***************************************************************************)
(* Results: Ok(value) with the cursor after it, Err(message), or a panic   *)
(* that aborts the program.  A message is the chain of its format          *)
(* prefixes, the text it quotes and the position it reports (-1: none).    *)
(***************************************************************************)

Msg(kinds, text, position) ==
    [kinds |-> kinds, text |-> text, position |-> position]

NoMsg == Msg(<<>>, <<>>, -1)

Ok(val, pos) == [st |-> "Ok", val |-> val, pos |-> pos, msg |-> NoMsg]

Err(kind, text, position) ==
    [st |-> "Err", val |-> <<>>, pos |-> 0,
     msg |-> Msg(<<kind>>, text, position)]

Abort == [st |-> "Abort", val |-> <<>>, pos |-> 0, msg |-> NoMsg]

(***************************************************************************)
(* struct SelectorParser { input, pos }: the cursor primitives             *)
(***************************************************************************)

\* peek: self.input.chars().nth(self.pos), pos counted in characters
peek(inp, pos) == IF pos < Len(inp) THEN inp[pos + 1] ELSE None

\* advance: one byte forward unless at the end, pos counted in bytes
advance(inp, pos) == IF pos < len(inp) THEN pos + 1 ELSE pos

\* is_eof: pos compared with the length in bytes
is_eof(inp, pos) == pos >= len(inp)

RECURSIVE skip_whitespace(_, _)
skip_whitespace(inp, pos) ==
    IF peek(inp, pos) # None /\ is_whitespace(peek(inp, pos))
    THEN skip_whitespace(inp, advance(inp, pos))
    ELSE pos

\* &self.input[self.pos..] panics unless pos is a character boundary
rest_ok(inp, pos) == slice_ok(inp, pos, len(inp))

rest(inp, pos) == slice(inp, pos, len(inp))

expect_str(inp, pos, s) ==
    IF ~rest_ok(inp, pos) THEN Abort
    ELSE IF starts_with(rest(inp, pos), s) THEN Ok(<<>>, pos + len(s))
    ELSE Err("Expected '{}' at position {}", s, pos)

expect_char(inp, pos, expected) ==
    IF peek(inp, pos) = expected THEN Ok(<<>>, advance(inp, pos))
    ELSE IF peek(inp, pos) # None
    THEN Err("Expected '{}' but found '{}' at position {}", <<expected>>, pos)
    ELSE Err("Expected '{}' but reached end of input", <<expected>>, -1)

(***************************************************************************)
(* The `?` operator: an Err or a panic of r is returned as it is, an Ok    *)
(* value goes on to F                                                      *)
(***************************************************************************)

Try(r, F(_)) == IF r.st # "Ok" THEN r ELSE F(r)

(***************************************************************************)
(* Attribute clauses                                                       *)
(***************************************************************************)

\* advance over the first character of ^=, $= or *= and expect the '='
expect_eq(inp, pos, op) ==
    Try(expect_char(inp, advance(inp, pos), "="), LAMBDA eq : Ok(op, eq.pos))

parse_operator(inp, pos) ==
    LET c == peek(inp, pos)
    IN  IF c = "^" THEN expect_eq(inp, pos, "StartsWith")
        ELSE IF c = "$" THEN expect_eq(inp, pos, "EndsWith")
        ELSE IF c = "*" THEN expect_eq(inp, pos, "Contains")
        ELSE IF c = "=" THEN Ok("Equals", advance(inp, pos))
        ELSE IF c # None
        THEN Err("Expected operator (=, ^=, $=, *=) but found '{}' at position {}",
                 <<c>>, pos)
        ELSE Err("Expected operator (=, ^=, $=, *=) but reached end of input",
                 <<>>, -1)

\* the while loop of parse_identifier: where the cursor stops
RECURSIVE identifier_end(_, _)
identifier_end(inp, pos) ==
    LET c == peek(inp, pos)
    IN  IF c # None /\ (is_alphanumeric(c) \/ c = "_" \/ c = "-")
        THEN identifier_end(inp, advance(inp, pos))
        ELSE pos

\* self.input[start..self.pos].to_string(), the cursor left at pos
take(inp, start, pos) ==
    IF ~slice_ok(inp, start, pos) THEN Abort
    ELSE Ok(slice(inp, start, pos), pos)

\* parse_identifier once its loop has stopped at pos
identifier_from(inp, start, pos) ==
    IF start = pos THEN Err("Expected identifier at position {}", <<>>, pos)
    ELSE take(inp, start, pos)

parse_identifier(inp, start) ==
    identifier_from(inp, start, identifier_end(inp, start))

\* the while loop of parse_quoted_string, from the cursor after the opening
\* quote: the closing quote ends it, the end of the input is an error
RECURSIVE quoted_string_loop(_, _, _, _)
quoted_string_loop(inp, start, pos, quote) ==
    LET c == peek(inp, pos)
    IN  IF c = None
        THEN Err("Unterminated string starting at position {}", <<>>, start - 1)
        ELSE IF c = quote
        THEN (IF ~slice_ok(inp, start, pos) THEN Abort
              ELSE Ok(slice(inp, start, pos), advance(inp, pos)))
        ELSE quoted_string_loop(inp, start, advance(inp, pos), quote)

parse_quoted_string(inp, pos, quote) ==
    Try(expect_char(inp, pos, quote),
        LAMBDA open : quoted_string_loop(inp, open.pos, open.pos, quote))

\* the while loop of parse_unquoted_value: where the cursor stops
RECURSIVE unquoted_value_end(_, _)
unquoted_value_end(inp, pos) ==
    LET c == peek(inp, pos)
    IN  IF c = None \/ c = "]" \/ c = "," \/ is_whitespace(c)
        THEN pos
        ELSE unquoted_value_end(inp, advance(inp, pos))

parse_unquoted_value(inp, start) ==
    take(inp, start, unquoted_value_end(inp, start))

parse_value(inp, pos) ==
    IF peek(inp, pos) = "\"" THEN parse_quoted_string(inp, pos, "\"")
    ELSE IF peek(inp, pos) = "'" THEN parse_quoted_string(inp, pos, "'")
    ELSE parse_unquoted_value(inp, pos)

\* empty_value_rejected, had Contains been left out of the match arm
empty_value_rejected_but_contains(op, value) ==
    op \in {"StartsWith", "EndsWith"} /\ value = <<>>

\* the check of parse_attr_clause between parse_value and the closing ']'
empty_value_rejected(op, value) ==
    op \in {"StartsWith", "EndsWith", "Contains"} /\ value = <<>>

\* parse_attr_clause from the value's end on
attr_clause_close(inp, attr, op, value) ==
    IF empty_value_rejected(op.val, value.val)
    THEN Err("Empty value not allowed for {:?} operator", <<>>, -1)
    ELSE Try(expect_char(inp, skip_whitespace(inp, value.pos), "]"),
             LAMBDA close :
                 Ok(AttrClause(attr.val, op.val, value.val), close.pos))

parse_attr_clause(inp, pos) ==
    Try(expect_char(inp, pos, "["), LAMBDA open :
    Try(parse_identifier(inp, skip_whitespace(inp, open.pos)), LAMBDA attr :
    Try(parse_operator(inp, skip_whitespace(inp, attr.pos)), LAMBDA op :
    Try(parse_value(inp, skip_whitespace(inp, op.pos)), LAMBDA value :
    attr_clause_close(inp, attr, op, value)))))

\* the loop of parse_attr_clauses; pos is the cursor after skip_whitespace
RECURSIVE attr_clauses_loop(_, _, _, _)

\* attr_clauses_loop, had whitespace before a further '[' been skipped
attr_clauses_loop_skips_whitespace(inp, saved_pos, pos, clauses) ==
    IF peek(inp, pos) # "[" THEN Ok(clauses, saved_pos)
    ELSE Try(parse_attr_clause(inp, pos), LAMBDA clause :
             attr_clauses_loop(inp, clause.pos,
                               skip_whitespace(inp, clause.pos),
                               Append(clauses, clause.val)))

attr_clauses_loop(inp, saved_pos, pos, clauses) ==
    IF peek(inp, pos) # "[" THEN Ok(clauses, saved_pos)
    ELSE IF pos > saved_pos /\ clauses # <<>> THEN Ok(clauses, saved_pos)
    ELSE Try(parse_attr_clause(inp, pos), LAMBDA clause :
             attr_clauses_loop(inp, clause.pos,
                               skip_whitespace(inp, clause.pos),
                               Append(clauses, clause.val)))

parse_attr_clauses(inp, pos) ==
    attr_clauses_loop(inp, pos, skip_whitespace(inp, pos), <<>>)

(***************************************************************************)
(* Selectors: the productions call each other, and parse_inner_selector    *)
(* calls Selector::parse on the text between the parentheses               *)
(***************************************************************************)

RECURSIVE Selector_parse(_)
RECURSIVE parse_descendant_chain(_, _)
RECURSIVE parse_child_combinator(_, _)
RECURSIVE parse_complex_selector(_, _)
RECURSIVE parse_inner_selector(_, _)

has_open == <<":", "h", "a", "s", "(">>

not_open == <<":", "n", "o", "t", "(">>

\* the while loop of parse_inner_selector: where the cursor stops
RECURSIVE inner_selector_end(_, _, _)
inner_selector_end(inp, pos, depth) ==
    IF depth > 0 /\ ~is_eof(inp, pos)
    THEN IF peek(inp, pos) = "("
         THEN inner_selector_end(inp, advance(inp, pos), depth + 1)
         ELSE IF peek(inp, pos) = ")"
         THEN (IF depth = 1 THEN pos
               ELSE inner_selector_end(inp, advance(inp, pos), depth - 1))
         ELSE inner_selector_end(inp, advance(inp, pos), depth)
    ELSE pos

\* the map_err of parse_inner_selector and the Ok it returns, the cursor
\* left at pos
inner_selector_result(inner, pos) ==
    IF inner.st = "Abort" THEN Abort
    ELSE IF inner.st = "Err"
    THEN [inner EXCEPT !.msg.kinds =
             <<"Invalid selector inside :has(): {}">> \o @]
    ELSE Ok(inner.val, pos)

\* parse_inner_selector from the text's start to where its loop stopped
inner_selector_from(inp, start, pos) ==
    IF ~slice_ok(inp, start, pos) THEN Abort
    ELSE inner_selector_result(Selector_parse(slice(inp, start, pos)), pos)

parse_inner_selector(inp, pos0) ==
    inner_selector_from(
        inp, skip_whitespace(inp, pos0),
        inner_selector_end(inp, skip_whitespace(inp, pos0), 1))

\* expect_str(open), parse_inner_selector, expect_char(')'): the body the
\* four :has()/:not() productions share; val is the inner selector
parse_pseudo(inp, pos, open) ==
    Try(expect_str(inp, pos, open), LAMBDA opened :
    Try(parse_inner_selector(inp, opened.pos), LAMBDA inner :
    Try(expect_char(inp, inner.pos, ")"), LAMBDA close :
    Ok(inner.val, close.pos))))

\* parse_has_selector, had it wrapped a leading :has() in a Complex with
\* no attribute clause
parse_has_selector_as_complex(inp, pos) ==
    Try(parse_pseudo(inp, pos, has_open), LAMBDA r :
        Ok(Complex(<<>>, <<r.val>>, <<>>), r.pos))

parse_has_selector(inp, pos) ==
    Try(parse_pseudo(inp, pos, has_open), LAMBDA r : Ok(Has(r.val), r.pos))

parse_not_selector(inp, pos) ==
    Try(parse_pseudo(inp, pos, not_open), LAMBDA r : Ok(Not(r.val), r.pos))

parse_has_selector_suffix(inp, pos) == parse_pseudo(inp, pos, has_open)

parse_not_selector_suffix(inp, pos) == parse_pseudo(inp, pos, not_open)

\* the suffix loop of parse_complex_selector; pos is the cursor after
\* skip_whitespace, val is <<has_selector, not_selector>>
RECURSIVE suffix_loop(_, _, _, _)

\* suffix_loop, had the first suffix of each kind been kept
suffix_loop_first_wins(inp, pos, has_selector, not_selector) ==
    IF peek(inp, pos) # ":" THEN Ok(<<has_selector, not_selector>>, pos)
    ELSE IF ~rest_ok(inp, pos) THEN Abort
    ELSE IF starts_with(rest(inp, pos), has_open)
    THEN Try(parse_has_selector_suffix(inp, pos), LAMBDA h :
             suffix_loop(inp, skip_whitespace(inp, h.pos),
                         IF has_selector = <<>> THEN <<h.val>>
                         ELSE has_selector,
                         not_selector))
    ELSE IF starts_with(rest(inp, pos), not_open)
    THEN Try(parse_not_selector_suffix(inp, pos), LAMBDA n :
             suffix_loop(inp, skip_whitespace(inp, n.pos),
                         has_selector,
                         IF not_selector = <<>> THEN <<n.val>>
                         ELSE not_selector))
    ELSE Ok(<<has_selector, not_selector>>, pos)

suffix_loop(inp, pos, has_selector, not_selector) ==
    IF peek(inp, pos) # ":" THEN Ok(<<has_selector, not_selector>>, pos)
    ELSE IF ~rest_ok(inp, pos) THEN Abort
    ELSE IF starts_with(rest(inp, pos), has_open)
    THEN Try(parse_has_selector_suffix(inp, pos), LAMBDA h :
             suffix_loop(inp, skip_whitespace(inp, h.pos),
                         <<h.val>>, not_selector))
    ELSE IF starts_with(rest(inp, pos), not_open)
    THEN Try(parse_not_selector_suffix(inp, pos), LAMBDA n :
             suffix_loop(inp, skip_whitespace(inp, n.pos),
                         has_selector, <<n.val>>))
    ELSE Ok(<<has_selector, not_selector>>, pos)

\* what parse_complex_selector returns after its suffix loop
suffixed_selector(clauses, has_selector, not_selector, pos) ==
    IF clauses = <<>> /\ has_selector = <<>> /\ not_selector = <<>>
    THEN Err("Expected attribute clause, :has() or :not()", <<>>, -1)
    ELSE IF has_selector # <<>> \/ not_selector # <<>>
    THEN Ok(Complex(clauses, has_selector, not_selector), pos)
    ELSE IF clauses = <<>>
    THEN Err("Expected attribute clause", <<>>, -1)
    ELSE Ok(And(clauses), pos)

\* parse_complex_selector after parse_attr_clauses returned clauses; pos
\* is the cursor after skip_whitespace
complex_selector_tail(inp, pos, clauses) ==
    IF peek(inp, pos) = ":"
    THEN Try(suffix_loop(inp, pos, <<>>, <<>>), LAMBDA suffixes :
             suffixed_selector(clauses, suffixes.val[1], suffixes.val[2],
                               suffixes.pos))
    ELSE IF clauses = <<>>
    THEN Err("Expected attribute clause, :has() or :not()", <<>>, -1)
    ELSE Ok(And(clauses), pos)

\* parse_complex_selector; pos is the cursor after skip_whitespace
complex_selector_at(inp, pos) ==
    IF peek(inp, pos) = ":" /\ ~rest_ok(inp, pos) THEN Abort
    ELSE IF peek(inp, pos) = ":" /\ starts_with(rest(inp, pos), has_open)
    THEN parse_has_selector(inp, pos)
    ELSE IF peek(inp, pos) = ":" /\ starts_with(rest(inp, pos), not_open)
    THEN parse_not_selector(inp, pos)
    ELSE Try(parse_attr_clauses(inp, pos), LAMBDA clauses :
             complex_selector_tail(inp, skip_whitespace(inp, clauses.pos),
                                   clauses.val))

parse_complex_selector(inp, pos0) ==
    complex_selector_at(inp, skip_whitespace(inp, pos0))

\* the loop of parse_child_combinator; pos is the cursor after
\* skip_whitespace
RECURSIVE child_combinator_loop(_, _, _)
child_combinator_loop(inp, pos, left) ==
    IF peek(inp, pos) = ">"
    THEN Try(parse_complex_selector(
                 inp, skip_whitespace(inp, advance(inp, pos))),
             LAMBDA right :
                 child_combinator_loop(inp, skip_whitespace(inp, right.pos),
                                       Child(left, right.val)))
    ELSE Ok(left, pos)

parse_child_combinator(inp, pos) ==
    Try(parse_complex_selector(inp, pos), LAMBDA left :
        child_combinator_loop(inp, skip_whitespace(inp, left.pos), left.val))

\* the loop of parse_descendant_chain; pos is the cursor after
\* skip_whitespace
RECURSIVE descendant_chain_loop(_, _, _, _)
descendant_chain_loop(inp, saved_pos, pos, left) ==
    IF is_eof(inp, pos) \/ peek(inp, pos) = "," \/ peek(inp, pos) = ")"
    THEN Ok(left, pos)
    ELSE IF peek(inp, pos) = "[" \/ peek(inp, pos) = ":"
    THEN Try(parse_child_combinator(inp, pos), LAMBDA right :
             descendant_chain_loop(inp, right.pos,
                                   skip_whitespace(inp, right.pos),
                                   Descendant(left, right.val)))
    ELSE Ok(left, saved_pos)

parse_descendant_chain(inp, pos) ==
    Try(parse_child_combinator(inp, pos), LAMBDA left :
        descendant_chain_loop(inp, left.pos, skip_whitespace(inp, left.pos),
                              left.val))

\* or_expr_result, had a single member been wrapped in an Or too
or_expr_result_always_or(selectors, pos) ==
    IF selectors = <<>> THEN Err("Empty selector", <<>>, -1)
    ELSE Ok(Or(selectors), pos)

\* the end of parse_or_expr, after its loop
or_expr_result(selectors, pos) ==
    IF selectors = <<>> THEN Err("Empty selector", <<>>, -1)
    ELSE IF Len(selectors) = 1 THEN Ok(selectors[1], pos)
    ELSE Ok(Or(selectors), pos)

RECURSIVE or_expr_loop(_, _, _)

\* the loop of parse_or_expr after a ',' was consumed; pos is the cursor
\* after skip_whitespace
or_expr_after_comma(inp, pos, selectors) ==
    IF is_eof(inp, pos) \/ peek(inp, pos) = ","
    THEN Err("Empty selector in OR expression", <<>>, -1)
    ELSE or_expr_loop(inp, pos, selectors)

\* the loop of parse_or_expr after a member was pushed; pos is the cursor
\* after skip_whitespace
or_expr_after_member(inp, pos, selectors) ==
    IF peek(inp, pos) = ","
    THEN or_expr_after_comma(inp, skip_whitespace(inp, advance(inp, pos)),
                             selectors)
    ELSE or_expr_result(selectors, pos)

\* the loop of parse_or_expr; pos is the cursor after skip_whitespace
or_expr_loop(inp, pos, selectors) ==
    IF is_eof(inp, pos) THEN or_expr_result(selectors, pos)
    ELSE IF peek(inp, pos) = ","
    THEN Err("Empty selector in OR expression", <<>>, -1)
    ELSE Try(parse_descendant_chain(inp, pos), LAMBDA member :
             or_expr_after_member(inp, skip_whitespace(inp, member.pos),
                                  Append(selectors, member.val)))

parse_or_expr(inp, pos) == or_expr_loop(inp, skip_whitespace(inp, pos), <<>>)

\* the end of SelectorParser::parse; pos is the cursor after skip_whitespace
expect_eof(inp, pos, selector) ==
    IF ~is_eof(inp, pos)
    THEN Err("Unexpected characters at position {}", <<>>, pos)
    ELSE Ok(selector, pos)

\* SelectorParser::parse
SelectorParser_parse(inp) ==
    Try(parse_or_expr(inp, skip_whitespace(inp, 0)), LAMBDA r :
        expect_eof(inp, skip_whitespace(inp, r.pos), r.val))

\* the quote test of parse_legacy
quoted(value) ==
    \/ starts_with(value, <<"\"">>) /\ ends_with(value, <<"\"">>)
    \/ starts_with(value, <<"'">>) /\ ends_with(value, <<"'">>)

\* parse_legacy's removal of the surrounding quotes: &value[1..value.len() - 1]
strip_quotes(value) ==
    IF quoted(value) THEN take(value, 1, len(value) - 1) ELSE Ok(value, 0)

\* parse_legacy on the two parts of splitn(2, '='), trimmed
legacy_clause(s, field, value) ==
    Try(strip_quotes(value), LAMBDA stripped :
        IF field # <<>> /\ stripped.val # <<>>
        THEN Ok(And(<<AttrClause(field, "Equals", stripped.val)>>), 0)
        ELSE Err("Invalid selector format: {}", s, -1))

\* Selector::parse_legacy
parse_legacy(s) ==
    IF contains(s, "=") /\ ~contains(s, "[") /\ ~contains(s, ":")
    THEN legacy_clause(s, trim(SubSeq(s, 1, find(s, "=", 1) - 1)),
                       trim(SubSeq(s, find(s, "=", 1) + 1, Len(s))))
    ELSE Err("Invalid selector format: {}", s, -1)


\* parse_result, had the primary grammar's diagnostic been kept when the
\* legacy grammar fails too
parse_result_primary_error(trimmed, primary) ==
    IF primary.st = "Ok" THEN Ok(primary.val, 0)
    ELSE IF primary.st = "Err"
    THEN (IF parse_legacy(trimmed).st = "Err" THEN primary
          ELSE parse_legacy(trimmed))
    ELSE Abort

\* Selector::parse on the trimmed string, given the primary grammar's result
parse_result(trimmed, primary) ==
    IF primary.st = "Ok" THEN Ok(primary.val, 0)
    ELSE IF primary.st = "Err" THEN parse_legacy(trimmed)
    ELSE Abort

\* Selector::parse
Selector_parse(s) == parse_result(trim(s), SelectorParser_parse(trim(s)))

(***************************************************************************)
(* Attribute names, as strings                                             *)
(***************************************************************************)

S_text == <<"t", "e", "x", "t">>

S_contentDescription == <<"c", "o", "n", "t", "e", "n", "t", "D", "e", "s", "c", "r", "i", "p", "t", "i", "o", "n">>

S_content_description == <<"c", "o", "n", "t", "e", "n", "t", "-", "d", "e", "s", "c", "r", "i", "p", "t", "i", "o", "n">>

S_content_desc == <<"c", "o", "n", "t", "e", "n", "t", "_", "d", "e", "s", "c">>

S_content_desc_attr == <<"c", "o", "n", "t", "e", "n", "t", "-", "d", "e", "s", "c">>

S_resourceId == <<"r", "e", "s", "o", "u", "r", "c", "e", "I", "d">>

S_resource_id_attr == <<"r", "e", "s", "o", "u", "r", "c", "e", "-", "i", "d">>

S_resource_id == <<"r", "e", "s", "o", "u", "r", "c", "e", "_", "i", "d">>

S_long_clickable_attr == <<"l", "o", "n", "g", "-", "c", "l", "i", "c", "k", "a", "b", "l", "e">>

S_long_clickable == <<"l", "o", "n", "g", "_", "c", "l", "i", "c", "k", "a", "b", "l", "e">>

S_class == <<"c", "l", "a", "s", "s">>

(***************************************************************************)
(* The document (roxmltree): doc is the sequence of its nodes in document  *)
(* order, node 1 the root node.  A node has a kind ("Root", "Element" or   *)
(* "Text"), its parent's number (0: none) and its attributes, a function   *)
(* from names to values.                                                   *)
(***************************************************************************)

NodeRec(kind, parent, attrs) ==
    [kind |-> kind, parent |-> parent, attrs |-> attrs]

RootNode == NodeRec("Root", 0, <<>>)

\* Node::is_element
is_element(d, n) == d[n].kind = "Element"

\* Node::attribute: an Option, <<>> for None (always None off an element)
attribute(d, n, name) ==
    IF is_element(d, n) /\ name \in DOMAIN d[n].attrs
    THEN <<d[n].attrs[name]>>
    ELSE <<>>

\* Node::parent: an Option, <<>> for None
parent_of(d, n) == IF d[n].parent = 0 THEN <<>> ELSE <<d[n].parent>>

\* Node::children, in document order
children(d, n) ==
    SelectSeq([i \in 1..Len(d) |-> i], LAMBDA i : d[i].parent = n)

(***************************************************************************)
(* The matcher                                                             *)
(***************************************************************************)

\* attr_name, had every name been looked up as it is
attr_name_verbatim(attr) == attr

\* the name AttrClause::matches hands to node.attribute: the aliases are
\* renamed, every other arm of the match looks the name up as it is
attr_name(attr) ==
    IF attr \in {S_contentDescription, S_content_description, S_content_desc}
    THEN S_content_desc_attr
    ELSE IF attr \in {S_resourceId, S_resource_id_attr, S_resource_id}
    THEN S_resource_id_attr
    ELSE IF attr \in {S_long_clickable_attr, S_long_clickable}
    THEN S_long_clickable_attr
    ELSE attr

\* the comparison of AttrClause::matches on a present value
op_holds(op, val, value) ==
    IF op = "Equals" THEN val = value
    ELSE IF op = "StartsWith" THEN starts_with(val, value)
    ELSE IF op = "EndsWith" THEN ends_with(val, value)
    ELSE contains_str(val, value)

\* AttrClause::matches
AttrClause_matches(d, clause, n) ==
    LET attr_value == attribute(d, n, attr_name(clause.attr))
    IN  IF attr_value # <<>>
        THEN op_holds(clause.op, attr_value[1], clause.value)
        ELSE FALSE

RECURSIVE matches(_, _, _)
RECURSIVE has_descendant_matching(_, _, _)
RECURSIVE has_ancestor_matching(_, _, _)

\* Check if a node has any descendant that matches the selector
has_descendant_matching(d, n, selector) ==
    \E i \in 1..Len(children(d, n)) :
        LET child == children(d, n)[i]
        IN  \/ matches(d, selector, child)
            \/ has_descendant_matching(d, child, selector)

\* Check if a node has any ancestor that matches the selector
has_ancestor_matching(d, n, selector) ==
    IF parent_of(d, n) # <<>>
    THEN \/ matches(d, selector, parent_of(d, n)[1])
         \/ has_ancestor_matching(d, parent_of(d, n)[1], selector)
    ELSE FALSE

\* the arms of the match in Selector::matches, on an element node

matches_And(d, clauses, n) ==
    \A i \in 1..Len(clauses) : AttrClause_matches(d, clauses[i], n)

matches_Or(d, selectors, n) ==
    \E i \in 1..Len(selectors) : matches(d, selectors[i], n)


\* matches_Has, had the inner selector been evaluated against the subtree
\* of the node alone, the node cut off from the nodes above it
matches_Has_in_subtree(d, inner, n) ==
    has_descendant_matching([d EXCEPT ![n].parent = 0], n, inner)

\* matches_Has, had only the children been searched
matches_Has_children_only(d, inner, n) ==
    \E i \in 1..Len(children(d, n)) : matches(d, inner, children(d, n)[i])

matches_Has(d, inner, n) == has_descendant_matching(d, n, inner)


\* matches_Not, had :not() been read as "has no matching descendant"
matches_Not_no_descendant(d, inner, n) == ~has_descendant_matching(d, n, inner)

matches_Not(d, inner, n) == ~matches(d, inner, n)


\* matches_Complex, had the has part been tried on the node itself
matches_Complex_has_on_self(d, attrs, has, not, n) ==
    LET attrs_match == \A i \in 1..Len(attrs) : AttrClause_matches(d, attrs[i], n)
        has_match == IF has # <<>> THEN matches(d, has[1], n) ELSE TRUE
        not_match == IF not # <<>> THEN ~matches(d, not[1], n) ELSE TRUE
    IN  attrs_match /\ has_match /\ not_match

matches_Complex(d, attrs, has, not, n) ==
    LET attrs_match == \A i \in 1..Len(attrs) : AttrClause_matches(d, attrs[i], n)
        has_match == IF has # <<>> THEN has_descendant_matching(d, n, has[1])
                     ELSE TRUE
        not_match == IF not # <<>> THEN ~matches(d, not[1], n) ELSE TRUE
    IN  attrs_match /\ has_match /\ not_match


\* matches_Child, had any ancestor been accepted as the parent
matches_Child_any_ancestor(d, parent, child, n) ==
    IF ~matches(d, child, n) THEN FALSE
    ELSE has_ancestor_matching(d, n, parent)

matches_Child(d, parent, child, n) ==
    IF ~matches(d, child, n) THEN FALSE
    ELSE IF parent_of(d, n) # <<>> THEN matches(d, parent, parent_of(d, n)[1])
    ELSE FALSE


\* matches_Descendant, had the node itself counted as its own ancestor
matches_Descendant_or_self(d, ancestor, descendant, n) ==
    IF ~matches(d, descendant, n) THEN FALSE
    ELSE matches(d, ancestor, n) \/ has_ancestor_matching(d, n, ancestor)

matches_Descendant(d, ancestor, descendant, n) ==
    IF ~matches(d, descendant, n) THEN FALSE
    ELSE has_ancestor_matching(d, n, ancestor)

\* the match of Selector::matches
matches_variant(d, s, n) ==
    CASE s.type = "And" -> matches_And(d, s.clauses, n)
      [] s.type = "Or" -> matches_Or(d, s.selectors, n)
      [] s.type = "Has" -> matches_Has(d, s.inner, n)
      [] s.type = "Not" -> matches_Not(d, s.inner, n)
      [] s.type = "Complex" -> matches_Complex(d, s.attrs, s.has, s.not, n)
      [] s.type = "Child" -> matches_Child(d, s.parent, s.child, n)
      [] s.type = "Descendant" ->
             matches_Descendant(d, s.ancestor, s.descendant, n)


\* matches, had the is_element test been left out
matches_any_node(d, s, n) == matches_variant(d, s, n)

\* Selector::matches
matches(d, s, n) == IF ~is_element(d, n) THEN FALSE ELSE matches_variant(d, s, n)

(***************************************************************************)
(* Elements and their bounds (src/src/ui_element.rs)                       *)
(***************************************************************************)

\* i32::MAX
I32_MAX == 2147483647

\* a decimal digit that is not an ASCII digit: the one character
\* ARABIC-INDIC DIGIT THREE, written by its code point
arabic_three == "U+0663"

\* the class \d of the regex crate: any Unicode decimal digit
regex_digit(c) == c \in Digits \cup {arabic_three}

\* the value of an ASCII digit
digit_value(c) ==
    CHOOSE v \in 0..9 :
        <<"0", "1", "2", "3", "4", "5", "6", "7", "8", "9">>[v + 1] = c

\* str::parse::<i32> on a non-empty run of \d characters, acc the digits
\* read so far: an Option, <<>> for None (a digit that is not ASCII, or a
\* value above i32::MAX)
RECURSIVE parse_i32(_, _, _)
parse_i32(s, i, acc) ==
    IF i > Len(s) THEN <<acc>>
    ELSE IF s[i] \notin Digits THEN <<>>
    ELSE IF acc > (I32_MAX - digit_value(s[i])) \div 10 THEN <<>>
    ELSE parse_i32(s, i + 1, acc * 10 + digit_value(s[i]))

\* (\d+): the index after the longest run of digits that starts at i
RECURSIVE digits_end(_, _)
digits_end(s, i) ==
    IF i <= Len(s) /\ regex_digit(s[i]) THEN digits_end(s, i + 1) ELSE i

\* whether character i of s is c
char_at(s, i, c) == i <= Len(s) /\ s[i] = c

\* the pattern \[(\d+),(\d+)\]\[(\d+),(\d+)\] tried at index i: the four
\* groups' start and end indices, or <<>> where it does not match
match_at(s, i) ==
    LET a == digits_end(s, i + 1)
        b == digits_end(s, a + 1)
        c == digits_end(s, b + 2)
        e == digits_end(s, c + 1)
    IN  IF /\ char_at(s, i, "[") /\ a > i + 1 /\ char_at(s, a, ",")
           /\ b > a + 1 /\ char_at(s, b, "]") /\ char_at(s, b + 1, "[")
           /\ c > b + 2 /\ char_at(s, c, ",")
           /\ e > c + 1 /\ char_at(s, e, "]")
        THEN <<<<i + 1, a - 1>>, <<a + 1, b - 1>>, <<b + 2, c - 1>>,
               <<c + 1, e - 1>>>>
        ELSE <<>>

\* Regex::captures: the leftmost match, searched from index i on
RECURSIVE captures(_, _)
captures(s, i) ==
    IF i > Len(s) THEN <<>>
    ELSE IF match_at(s, i) # <<>> THEN match_at(s, i)
    ELSE captures(s, i + 1)

\* caps.get(k)?.as_str().parse().ok()?
group_value(s, caps, k) == parse_i32(SubSeq(s, caps[k][1], caps[k][2]), 1, 0)

\* parse_bounds: an Option, <<>> for None
parse_bounds(bounds_str) ==
    LET caps == captures(bounds_str, 1)
    IN  IF caps = <<>> THEN <<>>
        ELSE IF \E k \in 1..4 : group_value(bounds_str, caps, k) = <<>>
        THEN <<>>
        ELSE <<[k \in 1..4 |-> group_value(bounds_str, caps, k)[1]]>>

\* the attribute collect_matching_elements reads
S_bounds == <<"b", "o", "u", "n", "d", "s">>

\* node_to_xml_string and node_to_xml_string_with_descendants: the text is
\* stood for by the node it serialises and whether its descendants are in
\* it
node_to_xml_string(n) == [node |-> n, with_descendants |-> FALSE]

node_to_xml_string_with_descendants(n) ==
    [node |-> n, with_descendants |-> TRUE]

\* struct UiElement
UiElement(bounds, raw_xml) == [bounds |-> bounds, raw_xml |-> raw_xml]

\* the element collect_matching_elements pushes for node n, if any
pushed(d, selector, n, with_descendants) ==
    IF is_element(d, n) /\ matches(d, selector, n)
          /\ attribute(d, n, S_bounds) # <<>>
          /\ parse_bounds(attribute(d, n, S_bounds)[1]) # <<>>
    THEN <<UiElement(parse_bounds(attribute(d, n, S_bounds)[1])[1],
                     IF with_descendants
                     THEN node_to_xml_string_with_descendants(n)
                     ELSE node_to_xml_string(n))>>
    ELSE <<>>

\* collect_matching_elements and collect_matching_elements_with_descendants
\* on node n: the elements pushed, the node first and then its children's
\* in turn
RECURSIVE collect_matching_elements(_, _, _, _)
RECURSIVE collect_children(_, _, _, _, _)

collect_children(d, selector, kids, i, with_descendants) ==
    IF i > Len(kids) THEN <<>>
    ELSE collect_matching_elements(d, selector, kids[i], with_descendants)
         \o collect_children(d, selector, kids, i + 1, with_descendants)

collect_matching_elements(d, selector, n, with_descendants) ==
    pushed(d, selector, n, with_descendants)
    \o collect_children(d, selector, children(d, n), 1, with_descendants)

\* the text of a hierarchy: whether it is well-formed XML, and the document
\* roxmltree makes of it
Xml(well_formed_xml, d) == [well_formed |-> well_formed_xml, doc |-> d]

\* Document::parse(xml).map_err(..)
Document_parse(xml) ==
    IF xml.well_formed THEN Ok(xml.doc, 0)
    ELSE Err("Failed to parse XML: {}", <<>>, -1)

\* find_elements (with_descendants false) and find_elements_with_descendants
find_elements(xml, selector, with_descendants) ==
    Try(Document_parse(xml), LAMBDA parsed_doc :
        Ok(collect_matching_elements(parsed_doc.val, selector, 1,
                                     with_descendants), 0))

\* is_element_visible, had an element touching the screen's edge counted
is_element_visible_touching(element, screen_width, screen_height) ==
    LET x1 == element.bounds[1]
        y1 == element.bounds[2]
        x2 == element.bounds[3]
        y2 == element.bounds[4]
    IN  (x1 <= screen_width /\ x2 >= 0) /\ (y1 <= screen_height /\ y2 >= 0)

\* is_element_visible
is_element_visible(element, screen_width, screen_height) ==
    LET x1 == element.bounds[1]
        y1 == element.bounds[2]
        x2 == element.bounds[3]
        y2 == element.bounds[4]
        has_horizontal_overlap == x1 < screen_width /\ x2 > 0
        has_vertical_overlap == y1 < screen_height /\ y2 > 0
    IN  has_horizontal_overlap /\ has_vertical_overlap

(***************************************************************************)
(* The callers: a selector string is put together from pieces and parsed;  *)
(* a document is built node by node and a selector matched against one of  *)
(* its nodes                                                               *)
(***************************************************************************)

\* no call made yet
NotRun == [st |-> "NotRun", val |-> <<>>, pos |-> 0, msg |-> NoMsg]

\* the longest input of Spec, in pieces
MaxParts == 4

\* the longest chain of SpecChain, in complex-selectors
MaxOperands == 3

\* the largest document of SpecMatch, in nodes below the root node
MaxNodes == 3

S_a1 == <<"[", "a", "=", "1", "]">>

S_b2 == <<"[", "b", "=", "2", "]">>

S_has_c3 == <<":", "h", "a", "s", "(", "[", "c", "=", "3", "]", ")">>

S_not_c3 == <<":", "n", "o", "t", "(", "[", "c", "=", "3", "]", ")">>

S_has_b2 == has_open \o S_b2 \o <<")">>

S_not_b2 == not_open \o S_b2 \o <<")">>

S_class_A == <<"[", "c", "l", "a", "s", "s", "=", "A", "]">>

S_text_T == <<"[", "t", "e", "x", "t", "=", "T", "]">>

\* the pieces of Spec: a whole clause and the characters errors are made of
Pieces ==
    {S_a1, <<"a">>, <<"=">>, <<"\"">>, <<"'">>, <<" ">>, <<",">>, <<"[">>,
     <<"]">>, has_open, <<")">>}

\* the complex-selectors of SpecChain
Operands == {S_a1, S_b2, S_has_c3, S_not_c3, S_a1 \o S_not_c3}

\* the combinators of SpecChain: descendant, child, child with spaces
DescendantSep == <<" ">>

ChildSeps == {<<">">>, <<" ", ">", " ">>}

Separators == {DescendantSep} \cup ChildSeps

\* the members of the comma-separated lists of SpecList: none, a clause,
\* a descendant chain, a :has() of a list, a :has() of a list with an empty
\* member, a legacy FIELD=VALUE
S_a1_b2 == S_a1 \o <<" ">> \o S_b2

S_has_list == has_open \o S_a1 \o <<",">> \o S_b2 \o <<")">>

S_has_empty == has_open \o <<",">> \o S_a1 \o <<")">>

S_legacy == <<"a", "=", "1">>

Members == {<<>>, S_a1, S_a1_b2, S_has_list, S_has_empty, S_legacy}

ListSeps == {<<",">>, <<" ", ",", " ">>}

\* the clauses of SpecClause: `[` name operator value `]`, and the legacy
\* name=value
S_ContentDescription == <<"C", "o", "n", "t", "e", "n", "t", "D", "e", "s", "c", "r", "i", "p", "t", "i", "o", "n">>

AliasNames ==
    {S_contentDescription, S_content_description, S_content_desc,
     S_resourceId, S_resource_id, S_long_clickable}

ClauseNames ==
    AliasNames \cup
    {S_content_desc_attr, S_resource_id_attr, S_long_clickable_attr,
     S_ContentDescription, S_text}

OpStrings == {<<"=">>, <<"^", "=">>, <<"$", "=">>, <<"*", "=">>}

S_v == <<"v">>

S_e_acute == <<"é">>

EmptyValues == {<<>>, <<"\"", "\"">>, <<"'", "'">>}

PlainValues == {S_v, <<"x", "=", "v">>, S_e_acute}

QuotedValues == {<<"\"", "v", "\"">>, <<"'", "x", " ", "v", "'">>}

ValueStrings == EmptyValues \cup PlainValues \cup QuotedValues

\* the attributes the root element of SpecClause carries: none, or one
DocNames ==
    {S_content_desc_attr, S_resource_id_attr, S_long_clickable_attr,
     S_contentDescription, S_resource_id, S_text}

DocValues == {<<>>, S_v, <<"x", " ", "v">>}

ClauseProfiles == {<<>>} \cup {(n :> v) : n \in DocNames, v \in DocValues}

\* the longest run of suffixes of SpecSuffix
MaxSuffixes == 3

\* the attribute clauses of SpecSuffix, and the suffixes that follow them
Heads == {S_a1, S_a1 \o S_b2}

Suffixes == {S_has_b2, S_has_c3, S_not_b2, S_not_c3}

\* the attributes an element of SpecMatch carries
Profiles ==
    {(S_class :> <<"A">>),
     (S_class :> <<"A">>) @@ (S_text :> <<"T">>),
     (S_class :> <<"B">>) @@ (S_text :> <<"T">>),
     (S_class :> <<"B">>) @@ (S_text :> <<"U">>)}

c_class_A == AttrClause(S_class, "Equals", <<"A">>)

c_text_T == AttrClause(S_text, "Equals", <<"T">>)

a1 == And(<<c_class_A>>)

a2 == And(<<c_text_T>>)

Atoms == {a1, a2}

\* selectors without a combinator at the top
Simple ==
    Atoms \cup
    {Not(a2), Has(a2), Or(<<a1, Not(a2)>>), Complex(<<>>, <<>>, <<a1>>),
     Complex(<<c_class_A>>, <<a2>>, <<>>)}

\* the selectors SpecMatch hands to Selector::matches
Selectors ==
    Simple \cup
    {Child(x, y) : x \in Simple, y \in Atoms \cup {Not(a2)}} \cup
    {Descendant(x, y) : x \in Simple, y \in Atoms \cup {Not(a2)}} \cup
    {Descendant(x, Child(y, a1)) : x \in Atoms, y \in Atoms} \cup
    {Child(Descendant(x, y), a2) : x \in Atoms, y \in Atoms} \cup
    {Child(Child(x, y), a2) : x \in Atoms, y \in Atoms} \cup
    {Has(Child(a1, a2)), Has(Descendant(a1, a2)), Not(Has(a1)), Has(Has(a2)),
     Complex(<<c_class_A>>, <<a2>>, <<a2>>),
     Complex(<<c_class_A, c_text_T>>, <<a1>>, <<Has(a2)>>)}

\* the source strings of the selectors SpecMatch parses
SelectorStrings == {S_class_A, S_text_T}

\* bounds attributes: as uiautomator writes them, with text before, cut
\* short, with a number of i32::MAX, one above it, and one in other digits
S_0_1 == <<"[", "0", ",", "1", "]">>

S_2_3 == <<"[", "2", ",", "3", "]">>

S_i32_max == <<"2", "1", "4", "7", "4", "8", "3", "6", "4", "7">>

S_i32_over == <<"2", "1", "4", "7", "4", "8", "3", "6", "4", "8">>

BoundsStrings ==
    {S_0_1 \o S_2_3,
     <<"x">> \o S_0_1 \o S_2_3,
     S_0_1 \o <<"[", "2", ",", "3">>,
     S_0_1 \o <<"[", "2", ",">> \o S_i32_max \o <<"]">>,
     S_0_1 \o <<"[", "2", ",">> \o S_i32_over \o <<"]">>,
     S_0_1 \o <<"[", arabic_three, ",", "3", "]">>}

\* the attributes an element of SpecFind carries
FindProfiles ==
    {(S_class :> c) : c \in {<<"A">>, <<"B">>}} \cup
    {(S_class :> c) @@ (S_bounds :> b) :
         c \in {<<"A">>, <<"B">>}, b \in BoundsStrings}

\* the selectors SpecFind hands to find_elements
FindSelectors == {a1, Has(a1)}

\* the screen of the device, as `wm size` reports it
ScreenSize == <<4, 4>>

\* the elements of the hierarchies the device returns: the scrollable
\* container, another element in its place, and the target below the
\* screen, on it, and without bounds
container(p) ==
    NodeRec("Element", p,
            (S_class :> <<"A">>) @@
            (S_bounds :> <<"[", "0", ",", "0", "]", "[", "4", ",", "4", "]">>))

plain(p) ==
    NodeRec("Element", p,
            (S_class :> <<"B">>) @@
            (S_bounds :> <<"[", "0", ",", "0", "]", "[", "4", ",", "4", "]">>))

target_below(p) ==
    NodeRec("Element", p,
            (S_class :> <<"B">>) @@ (S_text :> <<"T">>) @@
            (S_bounds :> <<"[", "0", ",", "4", "]", "[", "4", ",", "5", "]">>))

target_on_screen(p) ==
    NodeRec("Element", p,
            (S_class :> <<"B">>) @@ (S_text :> <<"T">>) @@
            (S_bounds :> <<"[", "0", ",", "1", "]", "[", "4", ",", "2", "]">>))

target_unbounded(p) ==
    NodeRec("Element", p, (S_class :> <<"B">>) @@ (S_text :> <<"T">>))

\* the hierarchies the device returns: text that is not XML, and documents
\* without the target, with the target below the screen, on the screen,
\* twice (the first below the screen), without bounds, and without the
\* container
Hierarchies ==
    {Xml(FALSE, <<>>),
     Xml(TRUE, <<RootNode, container(1)>>),
     Xml(TRUE, <<RootNode, container(1), target_below(2)>>),
     Xml(TRUE, <<RootNode, container(1), target_on_screen(2)>>),
     Xml(TRUE, <<RootNode, container(1), target_below(2), target_on_screen(2)>>),
     Xml(TRUE, <<RootNode, container(1), target_unbounded(2)>>),
     Xml(TRUE, <<RootNode, plain(1), target_below(2)>>)}

\* enum BochiCommand, by its value names
BochiCommand ==
    {"waitFor", "tap", "inputText", "longTap", "doubleTap", "scrollUp",
     "scrollDown"}

\* struct Cli (serial left out: it is passed on to adb unchanged); text and
\* scroll_target are Options, <<>> for None
Cli(selector_arg, command, text, timeout, print_descendants, scroll_target) ==
    [selector |-> selector_arg, command |-> command, text |-> text,
     timeout |-> timeout, print_descendants |-> print_descendants,
     scroll_target |-> scroll_target]

\* the selector strings of the command lines: one that parses, one that is
\* an error in both grammars, one on which parse_legacy panics
SelectorArgs == {S_class_A, <<"[">>, <<"=", "'">>}

TargetArgs == {S_text_T, <<"[">>, <<"=", "'">>}

\* the timeouts of the command lines, in seconds
Timeouts == {0, 1}

\* the command lines of SpecMain: --text with inputText only,
\* --print-descendants with waitFor only, --scroll-target with scrollUp and
\* scrollDown only
Clis ==
    {Cli(s, c, <<>>, t, FALSE, <<>>) :
         s \in SelectorArgs, c \in BochiCommand, t \in Timeouts} \cup
    {Cli(s, "inputText", <<S_v>>, t, FALSE, <<>>) :
         s \in SelectorArgs, t \in Timeouts} \cup
    {Cli(s, "waitFor", <<>>, t, TRUE, <<>>) :
         s \in SelectorArgs, t \in Timeouts} \cup
    {Cli(s, c, <<>>, t, FALSE, <<g>>) :
         s \in SelectorArgs, c \in {"scrollUp", "scrollDown"},
         t \in Timeouts, g \in TargetArgs}

\* the most hierarchies one run of SpecMain fetches
MaxPolls == 2

\* how an adb command can end: with success, not started (adb not found,
\* or not executable), or with a failure status
AdbOutcomes == {"ok", "not found", "spawn", "status"}

vars_parse == <<parts, input, result>>

vars_match == <<doc, sel, node, matched>>

\* main has not been started
not_started ==
    /\ elements = NotRun
    /\ cli = <<>>
    /\ main_selector = NotRun
    /\ target_selector = NotRun
    /\ fetched = <<>>
    /\ screen = <<>>
    /\ elapsed = 0
    /\ trace = <<>>
    /\ exit_code = -1

Init ==
    /\ parts = <<>>
    /\ input = <<>>
    /\ result = NotRun
    /\ pc = "build"
    /\ doc = <<RootNode>>
    /\ sel = <<>>
    /\ node = 0
    /\ matched = FALSE
    /\ not_started

\* the process starts with a command line
InitMain ==
    /\ parts = <<>>
    /\ input = <<>>
    /\ result = NotRun
    /\ pc = "main"
    /\ doc = <<RootNode>>
    /\ sel = <<>>
    /\ node = 0
    /\ matched = FALSE
    /\ elements = NotRun
    /\ cli \in Clis
    /\ main_selector = NotRun
    /\ target_selector = NotRun
    /\ fetched = <<>>
    /\ screen = <<>>
    /\ elapsed = 0
    /\ trace = <<>>
    /\ exit_code = -1

\* the caller appends a piece to the selector string
AppendPiece(t) ==
    /\ pc = "build"
    /\ Len(parts) < MaxParts
    /\ parts' = Append(parts, t)
    /\ input' = input \o t
    /\ UNCHANGED <<result, pc, vars_match, elements, vars_main>>

\* the caller appends a complex-selector to the chain, or a member to the
\* list
AppendOperand(t) ==
    /\ pc = "build"
    /\ Len(parts) % 2 = 0
    /\ Len(parts) < 2 * MaxOperands - 1
    /\ parts' = Append(parts, t)
    /\ input' = input \o t
    /\ UNCHANGED <<result, pc, vars_match, elements, vars_main>>

\* the caller appends a combinator to the chain, or a comma to the list
AppendSeparator(t) ==
    /\ pc = "build"
    /\ Len(parts) % 2 = 1
    /\ Len(parts) < 2 * MaxOperands - 1
    /\ parts' = Append(parts, t)
    /\ input' = input \o t
    /\ UNCHANGED <<result, pc, vars_match, elements, vars_main>>

\* the caller starts the selector with attribute clauses
AppendHead(t) ==
    /\ pc = "build"
    /\ parts = <<>>
    /\ parts' = <<t>>
    /\ input' = t
    /\ UNCHANGED <<result, pc, vars_match, elements, vars_main>>

\* the caller appends a :has() or :not() suffix, with no whitespace
AppendSuffix(t) ==
    /\ pc = "build"
    /\ parts # <<>>
    /\ Len(parts) < MaxSuffixes + 1
    /\ parts' = Append(parts, t)
    /\ input' = input \o t
    /\ UNCHANGED <<result, pc, vars_match, elements, vars_main>>

\* the call Selector::parse(input)
Parse ==
    /\ pc = "build"
    /\ result' = Selector_parse(input)
    /\ pc' = "parsed"
    /\ UNCHANGED <<parts, input, vars_match, elements, vars_main>>

\* the elements a node appended to the document may hang under: the last
\* node and its ancestors, the root node only while it has no element
RECURSIVE open_nodes(_, _)
open_nodes(d, n) ==
    IF n = 0 THEN {}
    ELSE (IF is_element(d, n) \/ (n = 1 /\ Len(d) = 1) THEN {n} ELSE {})
         \cup open_nodes(d, d[n].parent)

\* the document grows by an element
AddElement(p, attrs) ==
    /\ pc = "build"
    /\ Len(doc) < MaxNodes + 1
    /\ p \in open_nodes(doc, Len(doc))
    /\ doc' = Append(doc, NodeRec("Element", p, attrs))
    /\ UNCHANGED <<vars_parse, pc, sel, node, matched, elements, vars_main>>

\* the document grows by a text node: inside an element, and never next
\* to another text node (the XML parser makes one node of adjacent text)
AddText(p) ==
    /\ pc = "build"
    /\ Len(doc) < MaxNodes + 1
    /\ p \in open_nodes(doc, Len(doc))
    /\ is_element(doc, p)
    /\ ~(doc[Len(doc)].kind = "Text" /\ doc[Len(doc)].parent = p)
    /\ doc' = Append(doc, NodeRec("Text", p, <<>>))
    /\ UNCHANGED <<vars_parse, pc, sel, node, matched, elements, vars_main>>

\* a document has a root element
well_formed(d) == Len(d) >= 2

\* the call s.matches(n) on a selector built as an AST
Match(s, n) ==
    /\ pc = "build"
    /\ result = NotRun
    /\ well_formed(doc)
    /\ sel' = s
    /\ node' = n
    /\ matched' = matches(doc, s, n)
    /\ pc' = "matched"
    /\ UNCHANGED <<vars_parse, doc, elements, vars_main>>

\* Selector::parse("A B > C"), before the document is there
ParseChain(A, B, C) ==
    /\ pc = "build"
    /\ result = NotRun
    /\ doc = <<RootNode>>
    /\ parts' = <<A, <<" ">>, B, <<" ", ">", " ">>, C>>
    /\ input' = A \o <<" ">> \o B \o <<" ", ">", " ">> \o C
    /\ result' = Selector_parse(input')
    /\ UNCHANGED <<pc, vars_match, elements, vars_main>>

\* Selector::parse("[name op value]"), before the document is there
ParseClause(name, op, value) ==
    /\ pc = "build"
    /\ result = NotRun
    /\ doc = <<RootNode>>
    /\ parts' = <<<<"[">>, name, op, value, <<"]">>>>
    /\ input' = <<"[">> \o name \o op \o value \o <<"]">>
    /\ result' = Selector_parse(input')
    /\ UNCHANGED <<pc, vars_match, elements, vars_main>>

\* Selector::parse("name=value"), before the document is there
ParseLegacy(name, value) ==
    /\ pc = "build"
    /\ result = NotRun
    /\ doc = <<RootNode>>
    /\ parts' = <<name, <<"=">>, value>>
    /\ input' = name \o <<"=">> \o value
    /\ result' = Selector_parse(input')
    /\ UNCHANGED <<pc, vars_match, elements, vars_main>>

\* the document is its root element alone
AddRootElement(attrs) ==
    /\ pc = "build"
    /\ doc = <<RootNode>>
    /\ doc' = <<RootNode, NodeRec("Element", 1, attrs)>>
    /\ UNCHANGED <<vars_parse, pc, sel, node, matched, elements, vars_main>>

\* the call selector.matches(n) on the selector parsed
MatchParsed(n) ==
    /\ pc = "build"
    /\ result.st = "Ok"
    /\ well_formed(doc)
    /\ sel' = result.val
    /\ node' = n
    /\ matched' = matches(doc, result.val, n)
    /\ pc' = "matched"
    /\ UNCHANGED <<vars_parse, doc, elements, vars_main>>

\* the call find_elements(xml, s), or find_elements_with_descendants(xml, s),
\* on the text of the document built, or on text that is not XML
FindElements(well_formed_xml, s, with_descendants) ==
    /\ pc = "build"
    /\ well_formed(doc)
    /\ sel' = s
    /\ fetched' = Xml(well_formed_xml, doc)
    /\ elements' = find_elements(fetched', s, with_descendants)
    /\ pc' = "found"
    /\ UNCHANGED <<vars_parse, doc, node, matched, cli, main_selector,
                   target_selector, screen, elapsed, trace, exit_code>>

(***************************************************************************)
(* main (src/src/main.rs): the process goes from one blocking call to the  *)
(* next; pc is "main" before Selector::parse, "size", "check", "dump",     *)
(* "cat", "found", "swipe", "tap", "tap2", "text" and "long_tap" before    *)
(* the call of that name, and "exit" after exit() or a panic               *)
(***************************************************************************)

\* an entry of the trace: a clock read ("elapsed", with the time read), a
\* sleep (with its milliseconds), the lines printed, or an adb command (with
\* its arguments, or what it returned) and how it ended
Event(ev, arg, out) == [ev |-> ev, arg |-> arg, out |-> out]

\* Ok(())
Unit == Ok(<<>>, 0)

\* the end of main: exit(0) on Ok, exit(1) on Err
exited(r) ==
    [pc |-> "exit", result |-> r,
     exit_code |-> IF r.st = "Ok" THEN 0 ELSE 1]

\* a panic ends the process with the exit code 101
panicked == [pc |-> "exit", result |-> result, exit_code |-> 101]

\* the process goes on to the call p
running(p) == [pc |-> p, result |-> result, exit_code |-> -1]

\* where the process is after a step
goes(next) ==
    /\ pc' = next.pc
    /\ result' = next.result
    /\ exit_code' = next.exit_code

\* what a function that runs adb returns for the command's outcome:
\* format_adb_error for a command that did not start, the function's own
\* message for a failure status
adb_result(out, failed) ==
    IF out = "ok" THEN Unit
    ELSE IF out = "not found"
    THEN Err("adb is not available in the $PATH directories", <<>>, -1)
    ELSE IF out = "spawn" THEN Err("Failed to execute adb: {}", <<>>, -1)
    ELSE Err(failed, <<>>, -1)

\* whether the command is scrollUp or scrollDown
is_scroll(command) == command \in {"scrollUp", "scrollDown"}

\* main up to its first blocking call: exit(1) if the selector is an error,
\* then the match on cli.command
main_dispatch(c, s, t) ==
    IF s.st = "Abort" THEN panicked
    ELSE IF s.st = "Err" THEN [panicked EXCEPT !.exit_code = 1]
    ELSE IF c.command = "inputText" /\ c.text = <<>>
    THEN exited(Err("--text parameter is required for inputText command",
                    <<>>, -1))
    ELSE IF ~is_scroll(c.command) THEN running("check")
    ELSE IF c.scroll_target = <<>>
    THEN exited(Err(IF c.command = "scrollUp"
                    THEN "--scroll-target parameter is required for scrollUp command"
                    ELSE "--scroll-target parameter is required for scrollDown command",
                    <<>>, -1))
    ELSE IF t.st = "Abort" THEN panicked
    ELSE IF t.st = "Err"
    THEN exited(Err("Failed to parse scroll target selector: {}", <<>>, -1))
    ELSE running("size")

\* main: Selector::parse(&cli.selector), and Selector::parse(&target_str)
\* where the match on cli.command gets to it
Main ==
    /\ pc = "main"
    /\ main_selector' = Selector_parse(cli.selector)
    /\ target_selector' =
           IF /\ main_selector'.st = "Ok" /\ is_scroll(cli.command)
              /\ cli.scroll_target # <<>>
           THEN Selector_parse(cli.scroll_target[1])
           ELSE NotRun
    /\ goes(main_dispatch(cli, main_selector', target_selector'))
    /\ UNCHANGED <<parts, input, vars_match, elements, cli, fetched, screen,
                   elapsed, trace>>

\* time passes; the process reads the clock at "check" only
Tick ==
    /\ pc = "check"
    /\ elapsed <= cli.timeout
    /\ elapsed' = elapsed + 1
    /\ UNCHANGED <<vars_parse, pc, vars_match, elements, cli, main_selector,
                   target_selector, fetched, screen, trace, exit_code>>

\* the hierarchies fetched so far
fetches(t) == Cardinality({i \in 1..Len(t) : t[i].ev = "dump"})

\* start.elapsed() > timeout
timed_out(e, timeout) == e > timeout

\* the head of the loop of wait_for_elements and of scroll_until_visible
CheckTimeout ==
    /\ pc = "check"
    /\ timed_out(elapsed, cli.timeout) \/ fetches(trace) < MaxPolls
    /\ trace' = Append(trace, Event("elapsed", elapsed, "ok"))
    /\ IF timed_out(elapsed, cli.timeout)
       THEN goes(exited(Err(IF is_scroll(cli.command)
                            THEN "Timeout waiting for target element to become visible: {:?}"
                            ELSE "Timeout waiting for element with selector: {:?}",
                            <<>>, -1)))
       ELSE goes(running("dump"))
    /\ UNCHANGED <<parts, input, vars_match, elements, cli, main_selector,
                   target_selector, fetched, screen, elapsed>>

\* get_ui_hierarchy: adb shell uiautomator dump
Dump(out) ==
    /\ pc = "dump"
    /\ trace' = Append(trace, Event("dump", <<>>, out))
    /\ IF out = "ok" THEN goes(running("cat"))
       ELSE goes(exited(adb_result(out, "uiautomator dump failed: {}")))
    /\ UNCHANGED <<parts, input, vars_match, elements, cli, main_selector,
                   target_selector, fetched, screen, elapsed>>

\* get_ui_hierarchy: adb shell cat, and String::from_utf8 of its output
Cat(out, text) ==
    /\ pc = "cat"
    /\ trace' = Append(trace, Event("cat", IF out = "ok" THEN text ELSE <<>>,
                                    out))
    /\ IF out = "ok" THEN fetched' = text /\ goes(running("found"))
       ELSE /\ goes(exited(IF out = "utf8"
                           THEN Err("Invalid UTF-8 in dump file: {}", <<>>, -1)
                           ELSE adb_result(out,
                                           "Failed to read dump file: {}")))
            /\ UNCHANGED fetched
    /\ UNCHANGED <<parts, input, vars_match, elements, cli, main_selector,
                   target_selector, screen, elapsed>>

\* wait_for_elements, had it returned whatever list it found
wait_returns_any(found) == TRUE

\* wait_for_elements: `if !elements.is_empty() { return Ok(elements); }`
wait_returns(found) == found # <<>>

\* the match arm of cli.command once wait_for_elements has returned
\* Ok(found): waitFor prints and is done, the others unwrap the first
\* element in wait_for_element and go on to their gesture
after_wait(command, found) ==
    IF command = "waitFor" THEN exited(Unit)
    ELSE IF found = <<>> THEN panicked
    ELSE IF command = "longTap" THEN running("long_tap")
    ELSE running("tap")

\* wait_for_elements from find_elements on: Err, Ok or sleep and loop
WaitFound ==
    /\ pc = "found"
    /\ ~is_scroll(cli.command)
    /\ LET r == find_elements(fetched, main_selector.val,
                              cli.command = "waitFor"
                                  /\ cli.print_descendants)
       IN  IF r.st = "Err"
           THEN goes(exited(r)) /\ UNCHANGED <<elements, trace>>
           ELSE IF wait_returns(r.val)
           THEN /\ elements' = r
                /\ goes(after_wait(cli.command, r.val))
                /\ trace' =
                       IF cli.command = "waitFor"
                       THEN Append(trace,
                                   Event("println",
                                         [i \in 1..Len(r.val) |->
                                              r.val[i].raw_xml], "ok"))
                       ELSE trace
           ELSE /\ trace' = Append(trace, Event("sleep", 500, "ok"))
                /\ goes(running("check"))
                /\ UNCHANGED elements
    /\ UNCHANGED <<parts, input, vars_match, cli, main_selector,
                   target_selector, fetched, screen, elapsed>>

\* target_visible, had any of the target's matches been tested
target_visible_any(target_elements, scr) ==
    \E i \in 1..Len(target_elements) :
        is_element_visible(target_elements[i], scr[1], scr[2])

\* scroll_until_visible: `if let Some(target) = target_elements.first()`
\* and is_element_visible(target, screen_width, screen_height)
target_visible(target_elements, scr) ==
    /\ target_elements # <<>>
    /\ is_element_visible(target_elements[1], scr[1], scr[2])

\* scroll_until_visible from the first find_elements to the swipe
ScrollFound ==
    /\ pc = "found"
    /\ is_scroll(cli.command)
    /\ LET target_elements == find_elements(fetched, target_selector.val, FALSE)
           scroll_elements == find_elements(fetched, main_selector.val, FALSE)
       IN  IF target_elements.st = "Err"
           THEN goes(exited(target_elements)) /\ UNCHANGED elements
           ELSE IF target_visible(target_elements.val, screen)
           THEN goes(exited(Unit)) /\ UNCHANGED elements
           ELSE IF scroll_elements.st = "Err"
           THEN goes(exited(scroll_elements)) /\ UNCHANGED elements
           ELSE IF scroll_elements.val = <<>>
           THEN /\ goes(exited(Err("Scroll element not found with selector: {:?}",
                                   <<>>, -1)))
                /\ UNCHANGED elements
           ELSE goes(running("swipe")) /\ elements' = scroll_elements
    /\ UNCHANGED <<parts, input, vars_match, cli, main_selector,
                   target_selector, fetched, screen, elapsed, trace>>

\* get_screen_dimensions: adb shell wm size, and the parse of its output
GetScreenDimensions(out) ==
    /\ pc = "size"
    /\ trace' = Append(trace, Event("wm size", <<>>, out))
    /\ IF out = "ok" THEN screen' = ScreenSize /\ goes(running("check"))
       ELSE /\ goes(exited(IF out = "unparsable"
                           THEN Err("Could not parse screen size from: {}",
                                    <<>>, -1)
                           ELSE adb_result(out,
                                           "Failed to get screen size: {}")))
            /\ UNCHANGED screen
    /\ UNCHANGED <<parts, input, vars_match, elements, cli, main_selector,
                   target_selector, fetched, elapsed>>

min(a, b) == IF a < b THEN a ELSE b

max(a, b) == IF a > b THEN a ELSE b

abs(a) == IF a < 0 THEN 0 - a ELSE a

\* the arguments scroll_until_visible hands to perform_swipe for the first
\* scrollable element's bounds b
swipe_args(b, scr, scroll_up) ==
    LET screen_height == scr[2]
        start_y == IF scroll_up THEN (screen_height * 3) \div 10
                   ELSE (screen_height * 7) \div 10
        end_y == IF scroll_up THEN (screen_height * 7) \div 10
                 ELSE (screen_height * 3) \div 10
        swipe_x == (b[1] + b[3]) \div 2
        actual_start_y == IF scroll_up THEN b[2] + (screen_height \div 5)
                          ELSE b[4] - (screen_height \div 5)
        actual_end_y ==
            IF scroll_up
            THEN min(b[4] - (screen_height \div 5),
                     start_y + abs(end_y - start_y))
            ELSE max(b[2] + (screen_height \div 5),
                     start_y - abs(end_y - start_y))
    IN  <<swipe_x, min(max(actual_start_y, 0), screen_height), swipe_x,
          min(max(actual_end_y, 0), screen_height), 300>>

\* perform_swipe and the sleep after it
Swipe(out) ==
    /\ pc = "swipe"
    /\ LET swipe == Event("swipe",
                          swipe_args(elements.val[1].bounds, screen,
                                     cli.command = "scrollUp"), out)
       IN  IF out = "ok"
           THEN /\ trace' = trace \o <<swipe, Event("sleep", 500, "ok")>>
                /\ goes(running("check"))
           ELSE /\ trace' = Append(trace, swipe)
                /\ goes(exited(adb_result(out, "Swipe command failed: {}")))
    /\ UNCHANGED <<parts, input, vars_match, elements, cli, main_selector,
                   target_selector, fetched, screen, elapsed>>

\* the centre tap_element and long_tap_element compute
center(b) == <<(b[1] + b[3]) \div 2, (b[2] + b[4]) \div 2>>

\* tap_element on the element waited for: the tap of tap, the first tap of
\* double_tap_element, the tap of input_text_element
Tap(out) ==
    /\ pc = "tap"
    /\ LET tap == Event("tap", center(elements.val[1].bounds), out)
       IN  IF out = "ok" /\ cli.command # "tap"
           THEN /\ trace' = trace \o <<tap, Event("sleep", 100, "ok")>>
                /\ goes(running(IF cli.command = "doubleTap" THEN "tap2"
                                ELSE "text"))
           ELSE /\ trace' = Append(trace, tap)
                /\ goes(exited(adb_result(out, "Tap command failed: {}")))
    /\ UNCHANGED <<parts, input, vars_match, elements, cli, main_selector,
                   target_selector, fetched, screen, elapsed>>

\* double_tap_element: the second tap
SecondTap(out) ==
    /\ pc = "tap2"
    /\ trace' = Append(trace, Event("tap", center(elements.val[1].bounds),
                                    out))
    /\ goes(exited(adb_result(out, "Tap command failed: {}")))
    /\ UNCHANGED <<parts, input, vars_match, elements, cli, main_selector,
                   target_selector, fetched, screen, elapsed>>

\* input_text_element: adb shell input text
InputText(out) ==
    /\ pc = "text"
    /\ trace' = Append(trace, Event("text", cli.text[1], out))
    /\ goes(exited(adb_result(out, "Input text command failed: {}")))
    /\ UNCHANGED <<parts, input, vars_match, elements, cli, main_selector,
                   target_selector, fetched, screen, elapsed>>

\* long_tap_element: a swipe from the centre to the centre, 1000 ms long
LongTap(out) ==
    /\ pc = "long_tap"
    /\ trace' = Append(trace,
                       Event("swipe",
                             center(elements.val[1].bounds)
                                 \o center(elements.val[1].bounds)
                                 \o <<1000>>, out))
    /\ goes(exited(adb_result(out, "Long tap command failed: {}")))
    /\ UNCHANGED <<parts, input, vars_match, elements, cli, main_selector,
                   target_selector, fetched, screen, elapsed>>

Next ==
    \/ \E t \in Pieces : AppendPiece(t)
    \/ Parse

Spec == Init /\ [][Next]_vars

NextChain ==
    \/ \E t \in Operands : AppendOperand(t)
    \/ \E t \in Separators : AppendSeparator(t)
    \/ Parse

SpecChain == Init /\ [][NextChain]_vars

NextList ==
    \/ \E t \in Members : AppendOperand(t)
    \/ \E t \in ListSeps : AppendSeparator(t)
    \/ Parse

SpecList == Init /\ [][NextList]_vars

NextClause ==
    \/ \E name \in ClauseNames, op \in OpStrings, value \in ValueStrings :
          ParseClause(name, op, value)
    \/ \E name \in ClauseNames, value \in ValueStrings :
          ParseLegacy(name, value)
    \/ \E attrs \in ClauseProfiles : AddRootElement(attrs)
    \/ \E n \in 1..Len(doc) : MatchParsed(n)

SpecClause == Init /\ [][NextClause]_vars

NextSuffix ==
    \/ \E t \in Heads : AppendHead(t)
    \/ \E t \in Suffixes : AppendSuffix(t)
    \/ Parse

SpecSuffix == Init /\ [][NextSuffix]_vars

NextMatch ==
    \/ \E p \in 1..Len(doc), attrs \in Profiles : AddElement(p, attrs)
    \/ \E p \in 1..Len(doc) : AddText(p)
    \/ \E s \in Selectors, n \in 1..Len(doc) : Match(s, n)
    \/ \E A \in SelectorStrings, B \in SelectorStrings, C \in SelectorStrings :
          ParseChain(A, B, C)
    \/ \E n \in 1..Len(doc) : MatchParsed(n)

SpecMatch == Init /\ [][NextMatch]_vars

NextFind ==
    \/ \E p \in 1..Len(doc), attrs \in FindProfiles : AddElement(p, attrs)
    \/ \E well_formed_xml \in BOOLEAN, s \in FindSelectors,
          with_descendants \in BOOLEAN :
          FindElements(well_formed_xml, s, with_descendants)

SpecFind == Init /\ [][NextFind]_vars

NextMain ==
    \/ Main
    \/ Tick
    \/ CheckTimeout
    \/ \E out \in AdbOutcomes : Dump(out)
    \/ \E text \in Hierarchies : Cat("ok", text)
    \/ \E out \in (AdbOutcomes \ {"ok"}) \cup {"utf8"} : Cat(out, <<>>)
    \/ WaitFound
    \/ ScrollFound
    \/ \E out \in AdbOutcomes \cup {"unparsable"} : GetScreenDimensions(out)
    \/ \E out \in AdbOutcomes : Swipe(out)
    \/ \E out \in AdbOutcomes : Tap(out)
    \/ \E out \in AdbOutcomes : SecondTap(out)
    \/ \E out \in AdbOutcomes : InputText(out)
    \/ \E out \in AdbOutcomes : LongTap(out)

SpecMain == InitMain /\ [][NextMain]_vars

\* the coordinates and the screens is_element_visible is tried on: before,
\* on and past each edge of the screen
Coords == {-1, 0, 2, 4, 5}

ScreenSizes == {ScreenSize, <<2, 4>>}

\* an element with any bounds of its type, and a screen
InitVisible ==
    /\ parts = <<>>
    /\ input = <<>>
    /\ result = NotRun
    /\ pc = "visible"
    /\ doc = <<RootNode>>
    /\ sel = <<>>
    /\ node = 0
    /\ matched = FALSE
    /\ \E x1 \in Coords, y1 \in Coords, x2 \in Coords, y2 \in Coords :
           elements = Ok(<<UiElement(<<x1, y1, x2, y2>>, <<>>)>>, 0)
    /\ cli = <<>>
    /\ main_selector = NotRun
    /\ target_selector = NotRun
    /\ fetched = <<>>
    /\ screen \in ScreenSizes
    /\ elapsed = 0
    /\ trace = <<>>
    /\ exit_code = -1

\* is_element_visible(&element, screen_width, screen_height)
IsElementVisible ==
    /\ pc = "visible"
    /\ matched' = is_element_visible(elements.val[1], screen[1], screen[2])
    /\ pc' = "done"
    /\ UNCHANGED <<vars_parse, doc, sel, node, elements, vars_main>>

NextVisible == IsElementVisible

SpecVisible == InitVisible /\ [][NextVisible]_vars

(***************************************************************************)
(* Properties                                                              *)
(***************************************************************************)

\* the AST Selector::parse returns for s
parsed(s) == Selector_parse(s).val

\* the proper ancestors of node n, read off the parent links
RECURSIVE ancestors(_, _)
ancestors(d, n) ==
    IF d[n].parent = 0 THEN {}
    ELSE {d[n].parent} \cup ancestors(d, d[n].parent)

\* the proper descendants of node n
descendants(d, n) == {m \in 1..Len(d) : n \in ancestors(d, m)}

\* whether a Child node of the AST s, outside :has()/:not(), has a
\* Descendant node as an operand
RECURSIVE child_of_descendant(_)
child_of_descendant(s) ==
    CASE s.type = "Child" ->
             \/ s.parent.type = "Descendant"
             \/ s.child.type = "Descendant"
             \/ child_of_descendant(s.parent)
             \/ child_of_descendant(s.child)
      [] s.type = "Descendant" ->
             child_of_descendant(s.ancestor) \/ child_of_descendant(s.descendant)
      [] s.type = "Or" ->
             \E i \in 1..Len(s.selectors) : child_of_descendant(s.selectors[i])
      [] OTHER -> FALSE

\* kind(...kind(kind(s[1], s[2]), s[3])..., s[n]) for a sequence s of ASTs
RECURSIVE left_nested(_, _)
left_nested(kind, s) ==
    IF Len(s) = 1 THEN s[1]
    ELSE IF kind = "Child"
    THEN Child(left_nested(kind, SubSeq(s, 1, Len(s) - 1)), s[Len(s)])
    ELSE Descendant(left_nested(kind, SubSeq(s, 1, Len(s) - 1)), s[Len(s)])

\* the ASTs of the complex-selectors of a chain, each parsed alone
operand_asts(ps) == [i \in 1..((Len(ps) + 1) \div 2) |-> parsed(ps[2 * i - 1])]

\* whether every combinator of the chain is in the set seps
joined_by(ps, seps) == \A i \in 1..Len(ps) : i % 2 = 0 => ps[i] \in seps

\* C1: for every input string, Selector::parse returns Ok or Err; it never
\* aborts.
C1_ParseNeverAborts ==
    pc = "parsed" => result.st \in {"Ok", "Err"}

\* C2: whenever Selector::parse returns Err, the message is exactly
\* "Invalid selector format: " followed by the trimmed input; no diagnostic
\* of the primary grammar reaches the caller.
C2_ErrIsInvalidSelectorFormat ==
    pc = "parsed" /\ result.st = "Err" =>
        result.msg = Msg(<<"Invalid selector format: {}">>, trim(input), -1)

\* C2 witness: a parse that failed on an input with surrounding whitespace,
\* the primary grammar having failed inside a :has()
C2_Witness ==
    /\ pc = "parsed"
    /\ result.st = "Err"
    /\ trim(input) # input
    /\ SelectorParser_parse(trim(input)).st = "Err"
    /\ Len(SelectorParser_parse(trim(input)).msg.kinds) = 2

\* C3: the child combinator binds tighter than the descendant combinator:
\* `A > B C` parses to Descendant{Child{A,B},C}, `A B > C` parses to
\* Descendant{A,Child{B,C}}, and no Child node of a returned AST has a
\* Descendant node as an operand.
C3_ChildBindsTighter ==
    pc = "parsed" =>
        /\ (Len(parts) = 5 /\ parts[2] \in ChildSeps /\ parts[4] = DescendantSep
                => result = Ok(Descendant(Child(parsed(parts[1]),
                                                parsed(parts[3])),
                                          parsed(parts[5])), 0))
        /\ (Len(parts) = 5 /\ parts[2] = DescendantSep /\ parts[4] \in ChildSeps
                => result = Ok(Descendant(parsed(parts[1]),
                                          Child(parsed(parts[3]),
                                                parsed(parts[5]))), 0))
        /\ (result.st = "Ok" => ~child_of_descendant(result.val))

\* C4: a node n matches `A B > C` only if n matches C, n's parent p matches
\* B, and p has a proper ancestor matching A.
C4_ParentIsTheDescendant ==
    pc = "matched" /\ parts # <<>> /\ matched =>
        /\ matches(doc, parsed(parts[5]), node)
        /\ doc[node].parent # 0
        /\ matches(doc, parsed(parts[3]), doc[node].parent)
        /\ \E q \in ancestors(doc, doc[node].parent) :
               matches(doc, parsed(parts[1]), q)

\* C5: a chain of n >= 2 complex-selectors joined by the same combinator
\* parses left-nested: `A > B > C` is Child{Child{A,B},C} and `A B C` is
\* Descendant{Descendant{A,B},C}.
C5_ChainsNestLeft ==
    pc = "parsed" /\ Len(parts) >= 3 /\ Len(parts) % 2 = 1 =>
        /\ (joined_by(parts, ChildSeps)
                => result = Ok(left_nested("Child", operand_asts(parts)), 0))
        /\ (joined_by(parts, {DescendantSep})
                => result = Ok(left_nested("Descendant", operand_asts(parts)), 0))

\* C6: matches(Child{P,C}, n) is true iff C matches n, n has a parent, and P
\* matches that immediate parent; a node whose parent does not match P
\* never matches, nor does the root element.
C6_ChildMatchesImmediateParent ==
    pc = "matched" /\ sel.type = "Child" =>
        /\ matched = /\ matches(doc, sel.child, node)
                     /\ doc[node].parent # 0
                     /\ matches(doc, sel.parent, doc[node].parent)
        /\ (doc[node].parent # 0
                /\ ~matches(doc, sel.parent, doc[node].parent) => ~matched)
        /\ (doc[node].parent = 1 => ~matched)

\* C6 witness: a Child selector refused on a node that matches C and whose
\* grandparent, but not parent, matches P
C6_Witness ==
    /\ pc = "matched"
    /\ sel.type = "Child"
    /\ ~matched
    /\ matches(doc, sel.child, node)
    /\ doc[node].parent # 0
    /\ ~matches(doc, sel.parent, doc[node].parent)
    /\ doc[doc[node].parent].parent # 0
    /\ matches(doc, sel.parent, doc[doc[node].parent].parent)

\* C7: matches(Descendant{A,D}, n) is true iff D matches n and at least one
\* proper ancestor of n, never n itself, matches A; a node without an
\* element ancestor does not match.
C7_DescendantMatchesProperAncestor ==
    pc = "matched" /\ sel.type = "Descendant" =>
        /\ matched = /\ matches(doc, sel.descendant, node)
                     /\ \E q \in ancestors(doc, node) :
                            matches(doc, sel.ancestor, q)
        /\ ((\A q \in ancestors(doc, node) : ~is_element(doc, q)) => ~matched)

\* C7 witness: a Descendant selector accepted on a node whose parent does
\* not match A and whose grandparent does
C7_Witness ==
    /\ pc = "matched"
    /\ sel.type = "Descendant"
    /\ matched
    /\ ~matches(doc, sel.ancestor, doc[node].parent)
    /\ matches(doc, sel.ancestor, doc[doc[node].parent].parent)

\* C8: matches(Has(S), n) is true iff some node below the element n, at any
\* depth and not n itself, matches S; an element without children never
\* matches.
C8_HasMatchesProperDescendant ==
    pc = "matched" /\ sel.type = "Has" /\ is_element(doc, node) =>
        /\ matched = \E m \in descendants(doc, node) : matches(doc, sel.inner, m)
        /\ (descendants(doc, node) = {} => ~matched)

\* C8 witness: a Has selector accepted on an element none of whose
\* children matches S
C8_Witness ==
    /\ pc = "matched"
    /\ sel.type = "Has"
    /\ matched
    /\ \A m \in 1..Len(doc) :
           doc[m].parent = node => ~matches(doc, sel.inner, m)

\* C9: for every element n, matches(Not(S), n) = not matches(S, n);
\* `:not([text=T])` matches an element iff its text attribute is absent or
\* differs from T.
C9_NotNegates ==
    pc = "matched" /\ sel.type = "Not" /\ is_element(doc, node) =>
        /\ matched = ~matches(doc, sel.inner, node)
        /\ (sel.inner = a2 =>
                matched = \/ S_text \notin DOMAIN doc[node].attrs
                          \/ doc[node].attrs[S_text] # <<"T">>)

\* C9 witness: `:not([text=T])` accepted on an element whose text is there
\* and differs from T
C9_Witness ==
    /\ pc = "matched"
    /\ sel = Not(a2)
    /\ is_element(doc, node)
    /\ S_text \in DOMAIN doc[node].attrs
    /\ matched

\* C10: for every selector of any variant and every node that is not an
\* element, matches is false; a non-element parent never satisfies the
\* parent operand of a Child.
C10_NonElementNeverMatches ==
    pc = "matched" =>
        /\ (~is_element(doc, node) => ~matched)
        /\ (sel.type = "Child" /\ doc[node].parent # 0
                /\ ~is_element(doc, doc[node].parent) => ~matched)

\* C10 witness: a selector with a negation refused on a text node
C10_Witness ==
    /\ pc = "matched"
    /\ sel.type \in {"Not", "Or", "Complex"}
    /\ doc[node].kind = "Text"
    /\ ~matched

\* C11: for every element n, matches(Complex{attrs, has, not}, n) equals
\* (every clause of attrs holds on n) and (has is absent or Has(has)
\* matches n) and (not is absent or not does not match n): the conjunction
\* of And(attrs), Has(has) and Not(not) on the same node.
C11_ComplexIsConjunction ==
    pc = "matched" /\ sel.type = "Complex" /\ is_element(doc, node) =>
        /\ matched =
               /\ \A i \in 1..Len(sel.attrs) :
                      AttrClause_matches(doc, sel.attrs[i], node)
               /\ (sel.has = <<>> \/ matches(doc, Has(sel.has[1]), node))
               /\ (sel.not = <<>> \/ ~matches(doc, sel.not[1], node))
        /\ matched =
               /\ matches(doc, And(sel.attrs), node)
               /\ (sel.has = <<>> \/ matches(doc, Has(sel.has[1]), node))
               /\ (sel.not = <<>> \/ matches(doc, Not(sel.not[1]), node))

\* C11 witness: a Complex selector with clauses, a has part and a not part
\* accepted on an element that matches the has part itself
C11_Witness ==
    /\ pc = "matched"
    /\ sel.type = "Complex"
    /\ sel.attrs # <<>>
    /\ sel.has # <<>>
    /\ sel.not # <<>>
    /\ is_element(doc, node)
    /\ matches(doc, sel.has[1], node)
    /\ matched

\* the last suffix among ps[2..] that starts with open, <<>> if there is none
RECURSIVE last_suffix(_, _)
last_suffix(ps, open) ==
    IF Len(ps) < 2 THEN <<>>
    ELSE IF starts_with(ps[Len(ps)], open) THEN ps[Len(ps)]
    ELSE last_suffix(SubSeq(ps, 1, Len(ps) - 1), open)

\* the AST of the text between the parentheses of a suffix, as an Option
suffix_inner(t) ==
    IF t = <<>> THEN <<>> ELSE <<parsed(SubSeq(t, 6, Len(t) - 1))>>

\* C12: a complex-selector with several :has() and :not() suffixes parses,
\* and its Complex keeps for each kind the inner selector of the last
\* suffix of that kind: the parse equals that of the clauses followed by
\* the last :has() and the last :not() alone.
C12_LastSuffixWins ==
    pc = "parsed" /\ Len(parts) >= 2 =>
        /\ result = Ok(Complex(parsed(parts[1]).clauses,
                               suffix_inner(last_suffix(parts, has_open)),
                               suffix_inner(last_suffix(parts, not_open))), 0)
        /\ result = Selector_parse(parts[1] \o last_suffix(parts, has_open)
                                            \o last_suffix(parts, not_open))

\* C12 witness: `X:not(B):has(D):not(C)` with B and C different, parsed
C12_Witness ==
    /\ pc = "parsed"
    /\ Len(parts) = 4
    /\ starts_with(parts[2], not_open)
    /\ starts_with(parts[3], has_open)
    /\ starts_with(parts[4], not_open)
    /\ parts[2] # parts[4]
    /\ result.st = "Ok"

\* whether no Or node of the AST s, at any depth, has fewer than 2 members
RECURSIVE or_members_ok(_)
or_members_ok(s) ==
    CASE s.type = "Or" ->
             /\ Len(s.selectors) >= 2
             /\ \A i \in 1..Len(s.selectors) : or_members_ok(s.selectors[i])
      [] s.type \in {"Has", "Not"} -> or_members_ok(s.inner)
      [] s.type = "Complex" ->
             /\ (s.has # <<>> => or_members_ok(s.has[1]))
             /\ (s.not # <<>> => or_members_ok(s.not[1]))
      [] s.type = "Child" -> or_members_ok(s.parent) /\ or_members_ok(s.child)
      [] s.type = "Descendant" ->
             or_members_ok(s.ancestor) /\ or_members_ok(s.descendant)
      [] OTHER -> TRUE

\* the members of SpecList that are descendant-chains of the primary grammar
Chains == {S_a1, S_a1_b2, S_has_list}

\* whether ps is a list of descendant-chains with a comma between each two
list_of_chains(ps) ==
    /\ Len(ps) % 2 = 1
    /\ \A i \in 1..Len(ps) : i % 2 = 1 => ps[i] \in Chains

\* C13: a comma-separated list of n descendant-chains parses to Or with
\* exactly those n members in source order when n >= 2 and to the sole
\* member, without an Or around it, when n = 1; no AST returned by parse
\* has, at any depth, an Or with fewer than 2 members.
C13_OrHasItsMembers ==
    pc = "parsed" =>
        /\ (list_of_chains(parts) /\ Len(parts) = 1
                => result = Ok(parsed(parts[1]), 0))
        /\ (list_of_chains(parts) /\ Len(parts) >= 3
                => result = Ok(Or(operand_asts(parts)), 0))
        /\ (result.st = "Ok" => or_members_ok(result.val))

\* C13 witness: a list of three different chains, the last one a :has() of
\* a list, parsed
C13_Witness ==
    /\ pc = "parsed"
    /\ list_of_chains(parts)
    /\ Len(parts) = 5
    /\ parts[1] # parts[3]
    /\ parts[5] = S_has_list
    /\ result.st = "Ok"
    /\ result.val.type = "Or"

\* whether the list ps has an empty member: a leading comma, a trailing
\* comma, two commas with only whitespace between them, at top level or
\* inside a :has(); or is empty altogether
has_empty_member(ps) ==
    \/ ps = <<>>
    \/ Len(ps) % 2 = 0
    \/ \E i \in 1..Len(ps) : i % 2 = 1 /\ ps[i] \in {<<>>, S_has_empty}

\* C14: an input whose comma-separated list has an empty member, at top
\* level or inside :has()/:not(), makes parse return Err; so does an empty
\* input.
C14_EmptyMemberIsErr ==
    pc = "parsed" /\ has_empty_member(parts) => result.st = "Err"

\* whether ps is `[` name operator value `]`
bracket_clause(ps) == Len(ps) = 5 /\ ps[1] = <<"[">>

\* the attribute a clause's name stands for: the aliases of content-desc,
\* resource-id and long-clickable, every other name itself
resolved(attr) ==
    CASE attr \in {S_contentDescription, S_content_description,
                   S_content_desc} -> S_content_desc_attr
      [] attr \in {S_resourceId, S_resource_id} -> S_resource_id_attr
      [] attr = S_long_clickable -> S_long_clickable_attr
      [] OTHER -> attr

\* whether every StartsWith, EndsWith and Contains clause of the AST s has
\* a non-empty value
RECURSIVE substring_values_ok(_)
substring_values_ok(s) ==
    LET clauses_ok(cs) ==
            \A i \in 1..Len(cs) : cs[i].op = "Equals" \/ cs[i].value # <<>>
    IN  CASE s.type = "And" -> clauses_ok(s.clauses)
          [] s.type = "Or" ->
                 \A i \in 1..Len(s.selectors) :
                     substring_values_ok(s.selectors[i])
          [] s.type \in {"Has", "Not"} -> substring_values_ok(s.inner)
          [] s.type = "Complex" ->
                 /\ clauses_ok(s.attrs)
                 /\ (s.has # <<>> => substring_values_ok(s.has[1]))
                 /\ (s.not # <<>> => substring_values_ok(s.not[1]))
          [] s.type = "Child" ->
                 substring_values_ok(s.parent) /\ substring_values_ok(s.child)
          [] s.type = "Descendant" ->
                 /\ substring_values_ok(s.ancestor)
                 /\ substring_values_ok(s.descendant)

C16_LegacyEqualsBracket ==
    bracket_clause(parts) /\ parts[3] = <<"=">> /\ Len(doc) = 1 =>
        /\ (parts[4] \in PlainValues =>
                /\ result = Ok(And(<<AttrClause(parts[2], "Equals",
                                                parts[4])>>), 0)
                /\ result = Selector_parse(parts[2] \o <<"=">> \o parts[4]))
        /\ (parts[4] \in QuotedValues =>
                /\ result = Ok(And(<<AttrClause(parts[2], "Equals",
                                                SubSeq(parts[4], 2,
                                                       Len(parts[4]) - 1))>>),
                               0)
                /\ result = Selector_parse(parts[2] \o <<"=">> \o parts[4]))

\* C18: a clause looks its attribute up under a fixed name resolution: the
\* aliases of content-desc, resource-id and long-clickable read those
\* attributes, every other name (a differently-cased alias too) is looked
\* up as it is; a clause whose resolved attribute is absent is false for
\* every operator and value.
C18_AliasesResolve ==
    pc = "matched" /\ sel.type = "And" /\ Len(sel.clauses) = 1
        /\ is_element(doc, node) =>
        LET clause == sel.clauses[1]
            attrs == doc[node].attrs
        IN  /\ matched =
                   /\ resolved(clause.attr) \in DOMAIN attrs
                   /\ op_holds(clause.op, attrs[resolved(clause.attr)],
                               clause.value)
            /\ (resolved(clause.attr) \notin DOMAIN attrs => ~matched)

\* C18 witness: a clause named by an alias accepted on an element that
\* carries the attribute under its own name only
C18_Witness ==
    /\ pc = "matched"
    /\ sel.type = "And"
    /\ Len(sel.clauses) = 1
    /\ sel.clauses[1].attr \in AliasNames
    /\ is_element(doc, node)
    /\ sel.clauses[1].attr \notin DOMAIN doc[node].attrs
    /\ matched

\* the value of a legacy selector with one pair of surrounding matching
\* quotes removed
unquoted(value) ==
    IF /\ Len(value) >= 2
       /\ value[1] \in {"\"", "'"}
       /\ value[Len(value)] = value[1]
    THEN SubSeq(value, 2, Len(value) - 1)
    ELSE value

\* what the legacy grammar is to return for the trimmed input s: split at
\* the first '=', both sides trimmed, the value unquoted, both non-empty
legacy_result(s) ==
    LET eq == find(s, "=", 1)
        field == trim(SubSeq(s, 1, eq - 1))
        value == unquoted(trim(SubSeq(s, eq + 1, Len(s))))
    IN  IF /\ contains(s, "=") /\ ~contains(s, "[") /\ ~contains(s, ":")
           /\ field # <<>> /\ value # <<>>
        THEN Ok(And(<<AttrClause(field, "Equals", value)>>), 0)
        ELSE Err("Invalid selector format: {}", s, -1)

\* C17: the legacy grammar yields a result only when the trimmed input has
\* '=' and neither '[' nor ':'; it splits at the first '=', trims both
\* sides, removes one pair of surrounding matching quotes from the value
\* and returns And with a single Equals clause only if field and value are
\* non-empty; otherwise parse returns Err.
C17_LegacyGrammar ==
    pc = "parsed" /\ SelectorParser_parse(trim(input)).st = "Err" =>
        result = legacy_result(trim(input))

\* ps without the whitespace pieces it starts and ends with
RECURSIVE without_outer_whitespace(_)
without_outer_whitespace(ps) ==
    IF ps = <<>> THEN ps
    ELSE IF ps[1] = <<" ">> THEN without_outer_whitespace(Tail(ps))
    ELSE IF ps[Len(ps)] = <<" ">>
    THEN without_outer_whitespace(SubSeq(ps, 1, Len(ps) - 1))
    ELSE ps

\* whether the pieces i..j of ps are all t
run_of(ps, i, j, t) == \A k \in i..j : ps[k] = t

\* And of k clauses [a=1]
and_of(k) == And([i \in 1..k |-> AttrClause(<<"a">>, "Equals", <<"1">>)])

\* C19: attribute clauses are conjoined only when immediately adjacent:
\* `[a=1][a=1]` parses to And with two clauses, `[a=1] [a=1]` to
\* Descendant{And, And}; whitespace before the first '[' is skipped and
\* makes no combinator.
C19_AdjacentClausesConjoin ==
    pc = "parsed" =>
        LET core == without_outer_whitespace(parts)
            n == Len(core)
        IN  /\ (n >= 1 /\ run_of(core, 1, n, S_a1)
                    => result = Ok(and_of(n), 0))
            /\ \A j \in 1..n, m \in 1..n :
                   j + m < n /\ run_of(core, 1, j, S_a1)
                       /\ run_of(core, j + 1, j + m, <<" ">>)
                       /\ run_of(core, j + m + 1, n, S_a1)
                   => result = Ok(Descendant(and_of(j), and_of(n - j - m)), 0)

\* C19 witness: two adjacent clauses, whitespace, a third clause, parsed
C19_Witness ==
    /\ pc = "parsed"
    /\ parts = <<S_a1, S_a1, <<" ">>, S_a1>>
    /\ result.st = "Ok"
    /\ result.val.type = "Descendant"
    /\ Len(result.val.ancestor.clauses) = 2

\* C20: whitespace between attribute clauses and a following :has( or
\* :not( is a descendant separator: `[a=1] :not([c=3])` parses to
\* Descendant{And([a=1]), Not(And([c=3]))} and `[a=1] :has([c=3])` to
\* Descendant{And([a=1]), Has(And([c=3]))}; a Complex node comes only from
\* a suffix adjacent to the clauses.
C20_WhitespaceBeforeSuffixSeparates ==
    pc = "parsed" /\ Len(parts) = 3 /\ parts[1] \in {S_a1, S_b2}
        /\ parts[2] = DescendantSep /\ parts[3] \in {S_has_c3, S_not_c3} =>
        /\ result = Ok(Descendant(parsed(parts[1]), parsed(parts[3])), 0)
        /\ result.val.type # "Complex"

\* the input has a whitespace character
has_whitespace(s) == \E i \in 1..Len(s) : is_whitespace(s[i])

\* C21: a Descendant is built only where whitespace separates two
\* child-chains: an input without any whitespace character is never parsed
\* into a Descendant
C21_DescendantNeedsWhitespace ==
    pc = "parsed" /\ result.st = "Ok" /\ ~has_whitespace(input) =>
        result.val.type # "Descendant"

\* the pieces after the first that are t
pieces_equal(ps, t) == {i \in 2..Len(ps) : ps[i] = t}

\* the text between the opening ":has(" and the last character
inner_text(s) == SubSeq(s, Len(has_open) + 1, Len(s) - 1)

\* what ":has(" text ")" gives, from what Selector::parse gives for text
has_of(inner) ==
    IF inner.st = "Ok" THEN Ok(Has(inner.val), 0)
    ELSE IF inner.st = "Err" THEN Err("Invalid selector format: {}", <<>>, -1)
    ELSE Abort

\* C22: the inner selector of ":has(" is the text up to the ')' that closes
\* it, parsed by Selector::parse: ":has(" text ")" with no parenthesis in
\* text is Has of what Selector::parse gives for text and Err when that is
\* Err (the empty text included), and ":has(" with no ')' after it is Err
C22_InnerSelectorByDepth ==
    pc = "parsed" /\ Len(parts) >= 1 /\ parts[1] = has_open =>
        /\ pieces_equal(parts, <<")">>) = {} => result.st = "Err"
        /\ pieces_equal(parts, <<")">>) = {Len(parts)}
               /\ pieces_equal(parts, has_open) = {} =>
                  /\ result.st = has_of(Selector_parse(inner_text(input))).st
                  /\ result.val = has_of(Selector_parse(inner_text(input))).val

\* the cursor where the value of the clause `[` name operator value `]`
\* starts: name and operator are ASCII, one byte a character
value_start(ps) == Len(ps[1] \o ps[2] \o ps[3])

\* C23: while the primary grammar parses a clause whose unquoted value may
\* hold a multi-byte character, the cursor after the value is a character
\* boundary of the input no greater than its length, peek() is None there
\* exactly when is_eof() is true, and the value extracted is the characters
\* the cursor scanned
C23_CursorOnCharBoundary ==
    bracket_clause(parts) /\ parts[4] \in PlainValues =>
        LET pos == unquoted_value_end(input, value_start(parts))
        IN  /\ pos <= len(input)
            /\ is_char_boundary(input, pos)
            /\ peek(input, pos) = None <=> is_eof(input, pos)
            /\ parse_unquoted_value(input, value_start(parts)) =
                   Ok(parts[4], pos)

\* whether node m is a hit of the inner selector of Has, a Child or a
\* Descendant: m matches its right side, and m's parent or one of m's
\* ancestors, wherever in the document, matches its left side
hit(d, inner, m) ==
    IF inner.type = "Child"
    THEN matches(d, inner.child, m) /\ matches(d, inner.parent, d[m].parent)
    ELSE /\ matches(d, inner.descendant, m)
         /\ \E a \in ancestors(d, m) : matches(d, inner.ancestor, a)

\* C24: Has(Child{P,C}) and Has(Descendant{A,D}) hold of an element exactly
\* when one of its proper descendants is a hit, the hit's parent or ancestor
\* taken from the whole document: the element itself and the nodes above it
\* count
C24_HasSeesWholeTree ==
    pc = "matched" /\ sel.type = "Has"
                   /\ sel.inner.type \in {"Child", "Descendant"} =>
        matched = (/\ is_element(doc, node)
                   /\ \E m \in descendants(doc, node) : hit(doc, sel.inner, m))

\* Has(Descendant{A,D}) holds of an element although neither the element
\* nor a node below it matches A: the ancestor is above the element
C24_Witness ==
    /\ pc = "matched" /\ matched
    /\ sel.type = "Has" /\ sel.inner.type = "Descendant"
    /\ \A a \in descendants(doc, node) \cup {node} :
           ~matches(doc, sel.inner.ancestor, a)

\* whether a bounds attribute is [x1,y1][x2,y2], the four numbers runs of
\* the digits 0 to 9, and nothing else
bounds_form(s) ==
    /\ match_at(s, 1) # <<>>
    /\ match_at(s, 1)[4][2] + 1 = Len(s)
    /\ \A i \in 1..Len(s) : s[i] \in Digits \cup {"[", ",", "]"}

\* the nodes of d, in document order, that find_elements is to return for
\* the selector s
to_be_found(d, s) ==
    SelectSeq([i \in 1..Len(d) |-> i],
              LAMBDA n : /\ is_element(d, n)
                         /\ matches(d, s, n)
                         /\ attribute(d, n, S_bounds) # <<>>
                         /\ bounds_form(attribute(d, n, S_bounds)[1]))

\* C25: find_elements and find_elements_with_descendants return, in
\* document order, exactly the elements that match the selector and carry
\* a bounds attribute of the form [x1,y1][x2,y2]; an element without such
\* an attribute is left out and the elements below it are still visited
C25_FindReturnsMatchesWithBounds ==
    pc = "found" /\ fetched.well_formed =>
        /\ elements.st = "Ok"
        /\ [i \in 1..Len(elements.val) |-> elements.val[i].raw_xml.node] =
               to_be_found(doc, sel)

\* what wait_for_elements found in the hierarchy that the i-th entry of
\* the trace, a cat, returned
found_at(i) ==
    find_elements(trace[i].arg, main_selector.val,
                  cli.command = "waitFor" /\ cli.print_descendants)

\* the call failed: the process is over with exit code 1 and an Err
failed_with_Err == pc = "exit" /\ exit_code = 1 /\ result.st = "Err"

\* the i-th entry of the trace is a sleep of 500 ms
is_retry_sleep(i) == trace[i].ev = "sleep" /\ trace[i].arg = 500

\* C26: in a run of a command that waits for its element, every fetch
\* directly follows a clock read that was within the timeout, a clock read
\* past the timeout and a failed dump, cat or XML parse are the last thing
\* the run did and end it with an Err, the loop repeats (sleep, clock read)
\* exactly after a hierarchy with no match, a hierarchy with a match ends
\* the loop with that non-empty list, and the unwrap of the first element
\* never panics
C26_WaitRetriesOnlyOnNoMatch ==
    (pc # "main" /\ ~is_scroll(cli.command)) =>
        /\ \A i \in 1..Len(trace) :
               LET e == trace[i]
                   last == i = Len(trace)
               IN  /\ e.ev = "dump" =>
                          /\ i > 1
                          /\ trace[i - 1].ev = "elapsed"
                          /\ trace[i - 1].arg <= cli.timeout
                   /\ e.ev = "elapsed" =>
                          /\ i = 1 \/ is_retry_sleep(i - 1)
                          /\ e.arg > cli.timeout => last /\ failed_with_Err
                          /\ (e.arg <= cli.timeout /\ ~last) =>
                                 trace[i + 1].ev = "dump"
                   /\ (e.ev \in {"dump", "cat"} /\ e.out # "ok") =>
                          last /\ failed_with_Err
                   /\ (e.ev = "dump" /\ e.out = "ok" /\ ~last) =>
                          trace[i + 1].ev = "cat"
                   /\ (e.ev = "cat" /\ e.out = "ok") =>
                          /\ trace[i - 1].ev = "dump"
                          /\ IF found_at(i).st = "Err"
                             THEN /\ last
                                  /\ pc # "found" =>
                                         failed_with_Err /\ result = found_at(i)
                             ELSE IF found_at(i).val = <<>>
                             THEN /\ last => pc = "found"
                                  /\ ~last => is_retry_sleep(i + 1)
                             ELSE /\ pc # "found" => elements = found_at(i)
                                  /\ ~last => trace[i + 1].ev \in
                                                  {"println", "tap", "swipe"}
                   /\ is_retry_sleep(i) =>
                          /\ trace[i - 1].ev = "cat"
                          /\ trace[i - 1].out = "ok"
                          /\ found_at(i - 1).st = "Ok"
                          /\ found_at(i - 1).val = <<>>
        /\ elements.st = "Ok" => elements.val # <<>>
        /\ elements.st = "NotRun" => pc \notin {"tap", "tap2", "text", "long_tap"}
        /\ exit_code = 101 => main_selector.st = "Abort"

\* C26 witness: a tap whose element was not there at the first poll and
\* was there at the second ended with success
C26_Witness ==
    /\ cli.command = "tap"
    /\ pc = "exit"
    /\ exit_code = 0
    /\ \E i \in 1..Len(trace) : is_retry_sleep(i)

\* whether the first element find_elements returns for the target in the
\* hierarchy of the i-th entry of the trace, a cat, is on the screen
first_target_on_screen(i) ==
    LET t == find_elements(trace[i].arg, target_selector.val, FALSE).val
    IN  /\ t # <<>>
        /\ is_element_visible(t[1], screen[1], screen[2])

\* whether that hierarchy has an element for the scroll selector
has_scroll_element(i) ==
    find_elements(trace[i].arg, main_selector.val, FALSE).val # <<>>

\* the i-th entry of the trace is a hierarchy that was read and is XML
is_hierarchy(i) ==
    /\ trace[i].ev = "cat"
    /\ trace[i].out = "ok"
    /\ find_elements(trace[i].arg, target_selector.val, FALSE).st = "Ok"

\* C27: in a run of scrollUp or scrollDown every swipe directly follows a
\* clock read within the timeout, a dump and a cat of that iteration whose
\* hierarchy has the first element found for the target off the screen and
\* has an element for the scroll selector; a hierarchy whose first target
\* element is on the screen is the last thing the run did and ends it
\* with Ok, whatever the other target elements are; one without a scroll
\* element (and without a visible first target) ends it with an Err
C27_SwipeOnlyAfterFreshCheck ==
    (pc # "main" /\ is_scroll(cli.command)) =>
        \A i \in 1..Len(trace) :
            /\ trace[i].ev = "swipe" =>
                   /\ i > 3
                   /\ trace[i - 3].ev = "elapsed"
                   /\ trace[i - 3].arg <= cli.timeout
                   /\ trace[i - 2].ev = "dump"
                   /\ trace[i - 2].out = "ok"
                   /\ is_hierarchy(i - 1)
                   /\ ~first_target_on_screen(i - 1)
                   /\ has_scroll_element(i - 1)
            /\ (is_hierarchy(i) /\ first_target_on_screen(i)) =>
                   /\ i = Len(trace)
                   /\ pc # "found" =>
                          pc = "exit" /\ exit_code = 0 /\ result = Unit
            /\ (/\ is_hierarchy(i)
                /\ ~first_target_on_screen(i)
                /\ ~has_scroll_element(i)) =>
                   /\ i = Len(trace)
                   /\ pc # "found" => failed_with_Err
            /\ (/\ is_hierarchy(i)
                /\ ~first_target_on_screen(i)
                /\ has_scroll_element(i)) =>
                   \/ i = Len(trace) /\ pc \in {"found", "swipe"}
                   \/ i < Len(trace) /\ trace[i + 1].ev = "swipe"

\* C27 witness: a swipe was made on a hierarchy whose second target element
\* was on the screen and whose first was not, and the run then ended with
\* Ok on a later hierarchy
C27_Witness ==
    /\ is_scroll(cli.command)
    /\ pc = "exit"
    /\ exit_code = 0
    /\ \E i \in 2..Len(trace) :
           /\ trace[i].ev = "swipe"
           /\ Len(find_elements(trace[i - 1].arg, target_selector.val,
                                FALSE).val) = 2

\* the i-th entry of the trace is an adb command
is_adb_command(i) ==
    trace[i].ev \in {"wm size", "dump", "cat", "tap", "swipe", "text"}

\* the run issued no adb command
no_device_command == \A i \in 1..Len(trace) : ~is_adb_command(i)

\* the command line lacks what its command needs: inputText its --text, a
\* scroll its --scroll-target or one that Selector::parse accepts
lacks_argument ==
    \/ cli.command = "inputText" /\ cli.text = <<>>
    \/ is_scroll(cli.command) /\ cli.scroll_target = <<>>
    \/ is_scroll(cli.command) /\ target_selector.st \notin {"Ok", "NotRun"}

\* C28: an adb command is issued only if the -e selector parsed; a run
\* that lacks --text for inputText, or a parseable --scroll-target for a
\* scroll, ends with exit code 1 and no adb command; a tap directly
\* follows the hierarchy its element was found in or the sleep after a
\* successful first tap, and the text input directly follows the sleep
\* after a successful tap
C28_NoDeviceCommandWithoutArguments ==
    pc # "main" =>
        /\ main_selector.st # "Ok" => no_device_command
        /\ lacks_argument =>
               pc = "exit" /\ exit_code = 1 /\ no_device_command
        /\ \A i \in 1..Len(trace) :
               /\ (trace[i].ev = "tap" /\ trace[i - 1].ev # "sleep") =>
                      /\ trace[i - 1].ev = "cat"
                      /\ trace[i - 1].out = "ok"
                      /\ found_at(i - 1).st = "Ok"
                      /\ found_at(i - 1).val # <<>>
               /\ (trace[i].ev \in {"tap", "text"}
                       /\ trace[i - 1].ev = "sleep") =>
                      /\ trace[i - 1].arg = 100
                      /\ trace[i - 2].ev = "tap"
                      /\ trace[i - 2].out = "ok"
                      /\ trace[i].ev = "text" <=> cli.command = "inputText"
               /\ trace[i].ev = "text" => trace[i - 1].ev = "sleep"

\* C29: is_element_visible is true exactly when x1 < W, x2 > 0, y1 < H and
\* y2 > 0: false for an element that only touches an edge of the screen
\* from outside, true for a rectangle that has a point of the screen in it
\* (partly inside, filling the screen, or larger than it)
C29_VisibleIffOverlap ==
    pc = "done" =>
        LET x1 == elements.val[1].bounds[1]
            y1 == elements.val[1].bounds[2]
            x2 == elements.val[1].bounds[3]
            y2 == elements.val[1].bounds[4]
            W == screen[1]
            H == screen[2]
        IN  /\ matched <=> (x1 < W /\ x2 > 0 /\ y1 < H /\ y2 > 0)
            /\ (x2 = 0 \/ y2 = 0 \/ x1 = W \/ y1 = H) => ~matched
            /\ (\E x \in 0..(W - 1), y \in 0..(H - 1) :
                    x1 <= x /\ x < x2 /\ y1 <= y /\ y < y2) => matched

\* C29 witness: an element partly off the left edge of the screen was
\* found visible
C29_Witness ==
    /\ pc = "done"
    /\ matched
    /\ elements.val[1].bounds[1] < 0
    /\ elements.val[1].bounds[3] < screen[1]

\* the shape of an AST, at every depth: an And has a clause, an AttrClause
\* has a name, a Complex has a clause and a has or a not
RECURSIVE shape_ok(_)
shape_ok(s) ==
    CASE s.type = "And" ->
             /\ s.clauses # <<>>
             /\ \A i \in 1..Len(s.clauses) : s.clauses[i].attr # <<>>
      [] s.type = "Or" ->
             \A i \in 1..Len(s.selectors) : shape_ok(s.selectors[i])
      [] s.type \in {"Has", "Not"} -> shape_ok(s.inner)
      [] s.type = "Complex" ->
             /\ s.attrs # <<>>
             /\ \A i \in 1..Len(s.attrs) : s.attrs[i].attr # <<>>
             /\ s.has # <<>> \/ s.not # <<>>
             /\ \A i \in 1..Len(s.has) : shape_ok(s.has[i])
             /\ \A i \in 1..Len(s.not) : shape_ok(s.not[i])
      [] s.type = "Child" -> shape_ok(s.parent) /\ shape_ok(s.child)
      [] s.type = "Descendant" ->
             shape_ok(s.ancestor) /\ shape_ok(s.descendant)

\* C30: every AST Selector::parse returns has that shape at every depth
C30_AstShape == result.st = "Ok" => shape_ok(result.val)

\* C30 witness: for an input that starts with a pseudo-class, parse
\* returned a bare Has over an And
C30_Witness ==
    /\ result.st = "Ok"
    /\ input[1] = ":"
    /\ result.val.type = "Has"
    /\ result.val.inner.type = "And"

=============================================================================
